---- MODULE Spec2Model ----
(***************************************************************************)
(* Special-value and control-flow model of the qd extended-precision       *)
(* library: Double (2 limbs) and Quad (4 limbs).                           *)
(*                                                                         *)
(* A native f64 is a record [c, v]:                                        *)
(*   "nan", v         not a number; v = +1 sign bit clear (f64::NAN),      *)
(*                    v = -1 sign bit set, v = 0 sign bit not determined   *)
(*                    (a NaN produced by an arithmetic operation)          *)
(*   "inf", v = +-1   signed infinity                                      *)
(*   "zero", v = +-1  signed zero                                          *)
(*   "int", v # 0     the integer v, held exactly (|v| below 2^31)         *)
(*   "apx", v = +-1   a finite nonzero value of sign v and of ordinary     *)
(*                    magnitude: above rounding-error scale and within a   *)
(*                    few hundred binary orders of 1, so that one sum,     *)
(*                    product or quotient of two such values neither       *)
(*                    overflows nor underflows                             *)
(*   "wide", v = +-1  a finite nonzero value of sign v, of any magnitude   *)
(*                    an f64 holds (up to f64::MAX, down to the smallest   *)
(*                    subnormal)                                           *)
(*   "eps", v         a low limb: a finite value that the limb above it    *)
(*                    absorbs (hi + eps rounds to hi); v = +-1 its sign,   *)
(*                    v = 0 when the sign is not determined and the value  *)
(*                    may be zero                                          *)
(*   "sml", v         a finite value at rounding-error scale that the limb *)
(*                    above it need not absorb (a scaled or summed low     *)
(*                    limb); v as for "eps"                                *)
(*   "frac", v = +-1  a finite nonzero value of sign v, of magnitude below *)
(*                    1 and above rounding-error scale (0.5, 0.25, ...)    *)
(*   "piq", v # 0     the multiple v * pi/4 of pi/4, rounded (|v| small)   *)
(*   "fin"            some finite value (zero included), sign and          *)
(*                    magnitude undetermined                               *)
(*   "top"            undetermined                                         *)
(* A test on a value that does not determine its outcome yields Maybe, and *)
(* an operation that depends on such a test yields "top".                  *)
(***************************************************************************)
EXTENDS Integers, Sequences, FiniteSets, TLC

\* ------------------------------------------------------------------------
\* outcomes of a test: the set of truth values it can have
\* ------------------------------------------------------------------------
Yes == {TRUE}
No == {FALSE}
Maybe == {TRUE, FALSE}
B(b) == IF b THEN Yes ELSE No
TNot(p) == {~x : x \in p}
TAnd(p, q) == {x /\ y : x \in p, y \in q}
TOr(p, q) == {x \/ y : x \in p, y \in q}
TEq(p, q) == {x = y : x \in p, y \in q}
\* if p { x } else { y }, and u when p is not determined
Cond(p, x, y, u) == IF p = Yes THEN x ELSE IF p = No THEN y ELSE u

\* ------------------------------------------------------------------------
\* native f64 values
\* ------------------------------------------------------------------------
F(c, v) == [c |-> c, v |-> v]
NaN == F("nan", 1)
\* a NaN made by an operation: its sign bit is the platform's choice
NaN0 == F("nan", 0)
PInf == F("inf", 1)
NInf == F("inf", -1)
PZero == F("zero", 1)
NZero == F("zero", -1)
Top == F("top", 0)
Fin == F("fin", 0)
I(n) == IF n = 0 THEN PZero ELSE F("int", n)
Apx(s) == F("apx", s)
Wide(s) == F("wide", s)
Eps(s) == F("eps", s)
Sml(s) == F("sml", s)
Frac(s) == F("frac", s)
PiQ(k) == F("piq", k)

Sgn(n) == IF n < 0 THEN -1 ELSE IF n > 0 THEN 1 ELSE 0
AbsInt(n) == IF n < 0 THEN -n ELSE n
I32_MIN == -2147483647 - 1
I32_MAX == 2147483647

\* sign bit of a value: +1 clear, -1 set, 0 when it is not determined
FSign(a) ==
    CASE a.c \in {"int", "piq"} -> Sgn(a.v)
      [] a.c \in {"nan", "inf", "zero", "apx", "wide", "eps", "sml", "frac"} -> a.v
      [] OTHER -> 0

f64_is_nan(a) == IF a.c = "top" THEN Maybe ELSE B(a.c = "nan")
f64_is_infinite(a) == IF a.c = "top" THEN Maybe ELSE B(a.c = "inf")
f64_is_finite(a) == IF a.c = "top" THEN Maybe ELSE B(a.c \notin {"nan", "inf"})
\* the sign bit, read whatever the value is (NaN included)
f64_is_sign_negative(a) == IF FSign(a) = 0 THEN Maybe ELSE B(FSign(a) = -1)
f64_is_sign_positive(a) == TNot(f64_is_sign_negative(a))
\* a == 0.0 (true for both zeros, false for NaN)
f64_is_zero(a) ==
    CASE a.c = "zero" -> Yes
      [] a.c \in {"fin", "top"} -> Maybe
      [] a.c \in {"eps", "sml"} /\ a.v = 0 -> Maybe
      [] OTHER -> No

\* values whose class and sign are both determined
Known(a) ==
    a.c \in {"inf", "zero", "int", "apx", "wide", "frac", "piq"}
    \/ (a.c \in {"nan", "eps", "sml"} /\ a.v # 0)
NonZeroKnown(a) ==
    a.c \in {"inf", "int", "apx", "wide", "frac", "piq"}
    \/ (a.c \in {"eps", "sml"} /\ a.v # 0)
\* values at rounding-error scale
Small(a) == a.c \in {"eps", "sml"}
\* nonzero values of ordinary magnitude
Ordinary(a) == a.c \in {"int", "apx", "frac", "piq"}
\* nonzero values of bounded magnitude: below 2^31 and above rounding-error scale
Bounded(a) == a.c \in {"int", "frac", "piq"}
\* the integers 1 and -1
Unit(a) == a.c = "int" /\ (a.v = 1 \/ a.v = -1)
\* the value of sign s and magnitude that of a
Signed(a, s) ==
    CASE a.c \in {"fin", "top"} -> a
      [] a.c \in {"int", "piq"} -> F(a.c, s * AbsInt(a.v))
      [] a.c \in {"eps", "sml"} -> F(a.c, IF a.v = 0 THEN 0 ELSE s)
      [] OTHER -> F(a.c, s)

\* -a: flips the sign bit
FNeg(a) ==
    CASE a.c \in {"fin", "top"} -> a
      [] OTHER -> F(a.c, -a.v)

\* f64::abs: clears the sign bit
FAbs(a) ==
    CASE a.c \in {"fin", "top"} -> a
      [] a.c \in {"int", "piq"} -> F(a.c, AbsInt(a.v))
      [] a.c \in {"eps", "sml"} -> F(a.c, IF a.v = 0 THEN 0 ELSE 1)
      [] OTHER -> F(a.c, 1)

\* a + b for integers a and b: the sum, or a value of its sign when the sum
\* leaves the range of the integers held exactly
IntSum(a, b) ==
    IF a > 0 /\ b > I32_MAX - a THEN Apx(1)
    ELSE IF a < 0 /\ b < (-I32_MAX) - a THEN Apx(-1)
    ELSE I(a + b)

\* a + b, round to nearest: a sum of same-signed values can overflow only next
\* to f64::MAX, a sum of opposite signs can cancel
FAdd(a, b) ==
    CASE a.c = "top" \/ b.c = "top" -> Top
      [] a.c = "nan" \/ b.c = "nan" -> NaN0
      [] a.c = "inf" /\ b.c = "inf" -> IF a.v = b.v THEN a ELSE NaN0
      [] a.c = "inf" -> a
      [] b.c = "inf" -> b
      [] a.c = "zero" /\ b.c = "zero" -> IF a.v = -1 /\ b.v = -1 THEN NZero ELSE PZero
      [] a.c = "zero" -> b
      [] b.c = "zero" -> a
      [] a.c = "int" /\ b.c = "int" -> IntSum(a.v, b.v)
      [] a.c \in {"fin", "wide"} /\ b.c \in {"fin", "wide"} ->
            IF a.c = "wide" /\ b.c = "wide" /\ a.v # b.v THEN Fin ELSE Top
      [] a.c = "fin" \/ b.c = "fin" -> Fin
      [] a.c = "wide" -> IF (Ordinary(b) \/ Small(b)) /\ FSign(b) = a.v THEN a ELSE Fin
      [] b.c = "wide" -> IF (Ordinary(a) \/ Small(a)) /\ FSign(a) = b.v THEN b ELSE Fin
      [] Small(a) /\ Small(b) -> Sml(IF a.v = b.v THEN a.v ELSE 0)
      [] a.c = "eps" -> b
      [] b.c = "eps" -> a
      [] a.c = "sml" -> Apx(FSign(b))
      [] b.c = "sml" -> Apx(FSign(a))
      [] FSign(a) # FSign(b) -> Fin
      [] Bounded(a) /\ Bounded(b) -> Apx(FSign(a))
      [] OTHER -> Wide(FSign(a))

FSub(a, b) == FAdd(a, FNeg(b))

\* the class of a product or quotient at rounding-error scale: the low-limb
\* class survives a factor of magnitude at most 1
SmallTimes(a, b) ==
    IF a.c = "sml" \/ b.c = "sml" THEN "sml"
    ELSE IF Small(a) /\ Small(b) THEN "eps"
    ELSE IF (a.c = "int" /\ AbsInt(a.v) = 1) \/ (b.c = "int" /\ AbsInt(b.v) = 1) THEN "eps"
    ELSE IF a.c = "frac" \/ b.c = "frac" THEN "eps"
    ELSE "sml"

\* a * b for integers a and b: the product, or a value of its sign when the
\* product leaves the range of the integers held exactly
IntProduct(a, b) ==
    IF AbsInt(a) > I32_MAX \div AbsInt(b) THEN Apx(Sgn(a) * Sgn(b))
    ELSE I(a * b)

\* a * b, round to nearest: a product with a factor of any magnitude can
\* overflow or underflow unless the other factor is 1 or -1, and a product
\* with a factor at rounding-error scale, which reaches down to the smallest
\* subnormal, can round to zero unless the other factor is an integer or a
\* multiple of pi/4, and is of no known size when the other factor is inexact
FMul(a, b) ==
    CASE a.c = "top" \/ b.c = "top" -> Top
      [] a.c = "nan" \/ b.c = "nan" -> NaN0
      [] a.c = "inf" \/ b.c = "inf" ->
            IF a.c = "zero" \/ b.c = "zero" THEN NaN0
            ELSE IF NonZeroKnown(a) /\ NonZeroKnown(b) THEN F("inf", FSign(a) * FSign(b))
            ELSE Top
      [] a.c = "zero" \/ b.c = "zero" ->
            IF FSign(a) # 0 /\ FSign(b) # 0 THEN F("zero", FSign(a) * FSign(b))
            ELSE Eps(0)
      [] Unit(a) -> Signed(b, a.v * FSign(b))
      [] Unit(b) -> Signed(a, b.v * FSign(a))
      [] a.c = "int" /\ b.c = "int" -> IntProduct(a.v, b.v)
      [] a.c = "fin" -> IF Small(b) \/ b.c = "frac" THEN Fin ELSE Top
      [] b.c = "fin" -> IF Small(a) \/ a.c = "frac" THEN Fin ELSE Top
      [] a.c = "wide" \/ b.c = "wide" -> Top
      [] (Small(a) /\ b.c = "apx") \/ (a.c = "apx" /\ Small(b)) -> Fin
      [] Small(a) \/ Small(b) ->
            F(SmallTimes(a, b),
              IF a.c \in {"int", "piq"} \/ b.c \in {"int", "piq"}
              THEN FSign(a) * FSign(b) ELSE 0)
      [] Bounded(a) /\ Bounded(b) -> Apx(FSign(a) * FSign(b))
      [] OTHER -> Wide(FSign(a) * FSign(b))

\* a / b, round to nearest: a quotient with an operand of any magnitude can
\* overflow or underflow unless the divisor is 1 or -1, and a quotient of a
\* value at rounding-error scale, which reaches down to the smallest
\* subnormal, can round to zero unless the divisor is below 2 in magnitude,
\* and is of no known size when the divisor is inexact
FDiv(a, b) ==
    CASE a.c = "top" \/ b.c = "top" -> Top
      [] a.c = "nan" \/ b.c = "nan" -> NaN0
      [] a.c = "inf" ->
            IF b.c = "inf" THEN NaN0
            ELSE IF FSign(b) # 0 THEN F("inf", a.v * FSign(b)) ELSE Top
      [] b.c = "inf" ->
            IF FSign(a) # 0 THEN F("zero", FSign(a) * b.v) ELSE Eps(0)
      [] b.c = "zero" ->
            IF a.c = "zero" THEN NaN0
            ELSE IF NonZeroKnown(a) THEN F("inf", FSign(a) * b.v) ELSE Top
      [] a.c = "zero" ->
            IF NonZeroKnown(b) THEN F("zero", a.v * FSign(b)) ELSE Top
      [] b.c \in {"eps", "sml", "fin"} -> Top
      [] Unit(b) -> Signed(a, b.v * FSign(a))
      [] a.c = "int" /\ b.c = "int" ->
            IF AbsInt(a.v) % AbsInt(b.v) = 0
            THEN I(Sgn(a.v) * Sgn(b.v) * (AbsInt(a.v) \div AbsInt(b.v)))
            ELSE Apx(Sgn(a.v) * Sgn(b.v))
      [] a.c = "fin" -> IF b.c = "int" THEN Fin ELSE Top
      [] a.c = "wide" \/ b.c = "wide" -> Top
      [] Small(a) /\ b.c = "apx" -> Fin
      [] Small(a) ->
            F(IF b.c = "int" THEN a.c ELSE "sml",
              IF b.c = "frac" \/ (b.c = "piq" /\ AbsInt(b.v) <= 2)
              THEN FSign(a) * FSign(b) ELSE 0)
      [] Bounded(a) /\ Bounded(b) -> Apx(FSign(a) * FSign(b))
      [] OTHER -> Wide(FSign(a) * FSign(b))

\* floor(|k| * pi/4) for the small multiples the library's constants use
PiQFloor(k) == (AbsInt(k) \div 452) * 355 + ((AbsInt(k) % 452) * 355) \div 452

\* a < n for an integer literal n
FLtInt(a, n) ==
    CASE a.c = "nan" -> No
      [] a.c = "inf" -> B(a.v = -1)
      [] a.c = "zero" -> B(0 < n)
      [] a.c = "int" -> B(a.v < n)
      [] a.c \in {"eps", "sml", "frac"} ->
            IF a.v = 1 THEN B(n >= 1)
            ELSE IF a.v = -1 THEN B(n >= 0)
            ELSE IF n >= 1 THEN Yes ELSE IF n <= -1 THEN No ELSE Maybe
      [] a.c = "piq" ->
            IF a.v > 0 THEN B(n > PiQFloor(a.v)) ELSE B(n >= -PiQFloor(a.v))
      [] a.c \in {"apx", "wide"} ->
            IF a.v = 1 THEN (IF n <= 0 THEN No ELSE Maybe)
            ELSE (IF n >= 0 THEN Yes ELSE Maybe)
      [] OTHER -> Maybe

\* a > n for an integer literal n: -a < -n
FGtInt(a, n) == FLtInt(FNeg(a), -n)

\* bounds of |a| as pairs <<n, r>>: r = 0 the integer n itself, r = 1 a value
\* at rounding-error scale above n, r = 2 a value strictly between n and n + 1,
\* r = 3 any finite value above n and r = 4 infinity
MagLo(a) ==
    CASE a.c = "int" -> <<AbsInt(a.v), 0>>
      [] a.c = "inf" -> <<I32_MAX, 4>>
      [] a.c \in {"eps", "sml"} /\ a.v # 0 -> <<0, 1>>
      [] a.c = "wide" -> <<0, 1>>
      [] a.c \in {"frac", "apx"} -> <<0, 2>>
      [] a.c = "piq" -> <<PiQFloor(a.v), 2>>
      [] OTHER -> <<0, 0>>

MagHi(a) ==
    CASE a.c = "zero" -> <<0, 0>>
      [] a.c = "int" -> <<AbsInt(a.v), 0>>
      [] a.c \in {"eps", "sml"} -> <<0, 1>>
      [] a.c = "frac" -> <<0, 2>>
      [] a.c = "piq" -> <<PiQFloor(a.v), 2>>
      [] a.c \in {"apx", "wide", "fin"} -> <<I32_MAX, 3>>
      [] OTHER -> <<I32_MAX, 4>>

MagBelow(x, y) == x[1] < y[1] \/ (x[1] = y[1] /\ x[2] < y[2])
\* |a| is no greater than |b| whatever the two values are: the bounds meet only
\* at an integer or at infinity
MagAtMost(a, b) ==
    MagBelow(MagHi(a), MagLo(b)) \/ (MagHi(a) = MagLo(b) /\ MagHi(a)[2] \in {0, 4})

\* a comparison that also holds on equal magnitudes
FAbsGt_OrEqual(a, b) ==
    CASE a.c = "nan" \/ b.c = "nan" -> No
      [] a.c = "top" \/ b.c = "top" -> Maybe
      [] a.c = "piq" /\ b.c = "piq" -> B(AbsInt(a.v) >= AbsInt(b.v))
      [] MagAtMost(b, a) -> Yes
      [] MagBelow(MagHi(a), MagLo(b)) -> No
      [] OTHER -> Maybe

\* a.abs() > b.abs(): false when either is NaN
FAbsGt(a, b) ==
    CASE a.c = "nan" \/ b.c = "nan" -> No
      [] a.c = "top" \/ b.c = "top" -> Maybe
      [] a.c = "piq" /\ b.c = "piq" -> B(AbsInt(a.v) > AbsInt(b.v))
      [] MagBelow(MagHi(b), MagLo(a)) -> Yes
      [] MagAtMost(a, b) -> No
      [] OTHER -> Maybe

\* a == b on f64 (NaN is unequal to everything, the two zeros are equal)
FEq(a, b) ==
    CASE a.c = "nan" \/ b.c = "nan" -> No
      [] a.c = "top" \/ b.c = "top" -> Maybe
      [] a.c = "piq" /\ b.c = "piq" -> B(a.v = b.v)
      [] MagBelow(MagHi(a), MagLo(b)) \/ MagBelow(MagHi(b), MagLo(a)) -> No
      [] a.c = "zero" /\ b.c = "zero" -> Yes
      [] a.c \in {"int", "inf"} /\ b.c = a.c -> B(a.v = b.v)
      [] FSign(a) * FSign(b) = -1 -> No
      [] OTHER -> Maybe

\* x != 0.0 on f64 (true for NaN)
FNonZero(a) == TNot(f64_is_zero(a))


\* let x = v; Body(x): v is computed once and Body applied to its value
With(v, Body(_)) == CHOOSE r \in {Body(x) : x \in {v}} : TRUE

\* Option<T>: None is the empty sequence, Some(r) the one-element sequence
None == <<>>
Some(r) == <<r>>

\* ------------------------------------------------------------------------
\* error-free transformations and renormalization (common::core)
\* ------------------------------------------------------------------------
Exact(a) == a.c \in {"zero", "int"}

\* two_prod(a, b) -> (p, e): p = round(a * b), e the rounding error of p
two_prod(a, b) ==
    With(FMul(a, b), LAMBDA p :
        <<p, CASE p.c \in {"nan", "inf"} -> NaN0
               [] p.c = "top" -> Top
               [] Exact(a) /\ Exact(b) /\ Exact(p) -> PZero
               [] OTHER -> Eps(0)>>)

\* two_sum(a, b) -> (s, e): s = round(a + b), e the rounding error of s
two_sum(a, b) ==
    With(FAdd(a, b), LAMBDA s :
        <<s, CASE s.c \in {"nan", "inf"} -> NaN0
               [] s.c = "top" -> Top
               [] Exact(a) /\ Exact(b) -> PZero
               [] a.c = "eps" /\ b.c = "zero" -> PZero
               [] a.c = "zero" /\ b.c = "eps" -> PZero
               [] a.c = "int" /\ b.c = "eps" -> b
               [] a.c = "eps" /\ b.c = "int" -> a
               [] OTHER -> Eps(0)>>)

\* quick_two_sum(a, b): the same contract as two_sum, for |a| >= |b|
quick_two_sum(a, b) == two_sum(a, b)

\* renorm2(a, b): the canonical two-limb form of a + b
renorm2(a, b) == quick_two_sum(a, b)

\* ------------------------------------------------------------------------
\* Double: a pair (hi, lo) of f64 limbs
\* ------------------------------------------------------------------------
D(h, l) == [hi |-> h, lo |-> l]

ZERO == D(PZero, PZero)
NEG_ZERO == D(NZero, PZero)
ONE == D(I(1), PZero)
INFINITY == D(PInf, PZero)
NEG_INFINITY == D(NInf, PZero)
NAN == D(NaN, NaN)
\* irrational constants: an inexact high limb and a known nonzero low limb
E == D(Apx(1), Eps(1))
LN_2 == D(Apx(1), Eps(1))
LN_10 == D(Apx(1), Eps(-1))

Double_is_nan(a) == TOr(f64_is_nan(a.hi), f64_is_nan(a.lo))
Double_is_infinite(a) == TOr(f64_is_infinite(a.hi), f64_is_infinite(a.lo))
Double_is_zero(a) == f64_is_zero(a.hi)
Double_is_sign_negative(a) == f64_is_sign_negative(a.hi)
Double_is_sign_positive(a) == f64_is_sign_positive(a.hi)
\* PartialEq: limb-wise f64 equality
Double_eq(a, b) == TAnd(FEq(a.hi, b.hi), FEq(a.lo, b.lo))

\* the ordinary path of Mul::mul (finite operands, self nonzero)
mul_calc(self, other) ==
    With(two_prod(self.hi, other.hi), LAMBDA pe :
    With(renorm2(pe[1], FAdd(FAdd(pe[2], FMul(self.hi, other.lo)),
                             FMul(self.lo, other.hi))), LAMBDA ab :
    D(ab[1], ab[2])))

TOP == D(Top, Top)

\* the signs of self and other agree
SameSign(self, other) == TEq(Double_is_sign_positive(self), Double_is_sign_positive(other))

\* a mutation of mul: the sign of a zero or infinite product taken from self alone
mul_SignOfSelf(self, other) ==
    Cond(TOr(Double_is_nan(self), Double_is_nan(other)), NAN,
    Cond(Double_is_zero(self),
        Cond(Double_is_infinite(other), NAN,
        Cond(Double_is_sign_positive(self), ZERO, NEG_ZERO, TOP), TOP),
    Cond(Double_is_infinite(self),
        Cond(Double_is_zero(other), NAN,
        Cond(Double_is_sign_positive(self), INFINITY, NEG_INFINITY, TOP), TOP),
    Cond(Double_is_infinite(other),
        Cond(Double_is_sign_positive(self), INFINITY, NEG_INFINITY, TOP),
    mul_calc(self, other), TOP), TOP), TOP), TOP)

\* Mul::mul for Double
mul(self, other) ==
    Cond(TOr(Double_is_nan(self), Double_is_nan(other)), NAN,
    Cond(Double_is_zero(self),
        Cond(Double_is_infinite(other), NAN,
        Cond(SameSign(self, other), ZERO, NEG_ZERO, TOP), TOP),
    Cond(Double_is_infinite(self),
        Cond(Double_is_zero(other), NAN,
        Cond(SameSign(self, other), INFINITY, NEG_INFINITY, TOP), TOP),
    Cond(Double_is_infinite(other),
        Cond(SameSign(self, other), INFINITY, NEG_INFINITY, TOP),
    mul_calc(self, other), TOP), TOP),
    \* self is zero or at rounding-error scale: a zero or a product at that scale
    IF Small(self.hi) /\ Double_is_infinite(other) = No THEN mul_calc(self, other) ELSE TOP),
    TOP)

\* ------------------------------------------------------------------------
\* Double arithmetic other than multiplication
\* ------------------------------------------------------------------------
from(a) == D(a, PZero)

neg(a) == D(FNeg(a.hi), FNeg(a.lo))

Double_abs(a) == Cond(Double_is_sign_negative(a), neg(a), a, TOP)

\* floor(log2(n)) for an integer n >= 1
RECURSIVE FloorLog2(_)
FloorLog2(n) == IF n < 2 THEN 0 ELSE 1 + FloorLog2(n \div 2)

\* the two-limb sum of finite operands. The low limb of an operand x, which
\* x.hi absorbs, is absorbed by the sum s of the high limbs as well when s is
\* of no lower binary order than x.hi; high limbs that cancel leave a sum the
\* low limb can move
add_calc(self, other) ==
    LET Absorbed(s, x) ==
            \/ x.lo.c # "eps"
            \/ s.c # "int"
            \/ x.hi.c = "int" /\ FloorLog2(AbsInt(s.v)) >= FloorLog2(AbsInt(x.hi.v))
    IN  With(two_sum(self.hi, other.hi), LAMBDA se :
        With(FAdd(se[2], FAdd(self.lo, other.lo)), LAMBDA t :
        With(renorm2(se[1], IF t.c = "eps" /\ ~(Absorbed(se[1], self) /\ Absorbed(se[1], other))
                            THEN Sml(t.v) ELSE t), LAMBDA ab :
        D(ab[1], ab[2]))))

\* Add::add for Double: NaN dominates, then Infinity, else the two-limb sum
Double_add(self, other) ==
    Cond(TOr(Double_is_nan(self), Double_is_nan(other)), NAN,
    Cond(Double_is_infinite(self),
        Cond(TAnd(Double_is_infinite(other), TNot(SameSign(self, other))), NAN,
        Cond(Double_is_sign_positive(self), INFINITY, NEG_INFINITY, TOP), TOP),
    Cond(Double_is_infinite(other),
        Cond(Double_is_sign_positive(other), INFINITY, NEG_INFINITY, TOP),
    add_calc(self, other), TOP), TOP), TOP)

Double_sub(self, other) == Double_add(self, neg(other))

\* the high limb of a quotient whose first term is q, once the correction
\* terms that nonzero low limbs bring are summed in: an integer or a fraction
\* can move to a neighbouring f64
Corrected(q) == IF q.c \in {"int", "frac"} THEN Apx(FSign(q)) ELSE q

\* the quotient of finite nonzero operands
div_calc(self, other) ==
    With(FDiv(self.hi, other.hi), LAMBDA q :
    IF q.c = "top" THEN TOP
    ELSE IF self.lo.c = "zero" /\ other.lo.c = "zero"
    THEN D(q, IF q.c = "int" THEN PZero ELSE Eps(0))
    ELSE D(Corrected(q), Eps(0)))

\* Div::div for Double: mirrors multiplication (0/0 and Inf/Inf give NaN,
\* x/0 a signed Infinity, x/Inf a signed zero)
div(self, other) ==
    Cond(TOr(Double_is_nan(self), Double_is_nan(other)), NAN,
    Cond(Double_is_zero(other),
        Cond(Double_is_zero(self), NAN,
        Cond(SameSign(self, other), INFINITY, NEG_INFINITY, TOP), TOP),
    Cond(Double_is_infinite(self),
        Cond(Double_is_infinite(other), NAN,
        Cond(SameSign(self, other), INFINITY, NEG_INFINITY, TOP), TOP),
    Cond(TOr(Double_is_infinite(other), Double_is_zero(self)),
        Cond(SameSign(self, other), ZERO, NEG_ZERO, TOP),
    div_calc(self, other),
    \* self is zero or at rounding-error scale: a zero or a quotient at that scale
    IF Small(self.hi) /\ Double_is_infinite(other) = No THEN div_calc(self, other) ELSE TOP),
    TOP), TOP), TOP)

recip(a) == div(ONE, a)

\* Double::from_div(a, b): the quotient of two f64 as a Double
from_div(a, b) ==
    With(FDiv(a, b), LAMBDA q :
    D(q, IF q.c \in {"nan", "inf"} THEN NaN0
         ELSE IF q.c = "top" THEN Top
         ELSE IF q.c \in {"zero", "int"} THEN PZero
         ELSE Eps(0)))

\* mul_pwr2(a, 0.5): both limbs halved
mul_pwr2_half(a) == D(FDiv(a.hi, I(2)), FDiv(a.lo, I(2)))

\* two_square(a) -> (p, e)
two_square(a) == two_prod(a, a)

\* Double::square (and sqr): no special-value shortcut
square(self) ==
    With(two_square(self.hi), LAMBDA pe :
    With(quick_two_sum(pe[1],
             FAdd(FAdd(pe[2], FMul(FMul(I(2), self.hi), self.lo)),
                  FMul(self.lo, self.lo))), LAMBDA se :
    D(se[1], se[2])))

\* ------------------------------------------------------------------------
\* native f64 elementary functions
\* ------------------------------------------------------------------------
IsSquare(v) == \E k \in 1..50 : k * k = v
RootOf(v) == CHOOSE k \in 1..50 : k * k = v

f64_sqrt(a) ==
    CASE a.c = "nan" -> NaN0
      [] a.c = "zero" -> a
      [] a.c = "inf" -> IF a.v = 1 THEN PInf ELSE NaN0
      [] a.c = "int" -> IF a.v < 0 THEN NaN0
                        ELSE IF IsSquare(a.v) THEN I(RootOf(a.v)) ELSE Apx(1)
      [] a.c \in {"apx", "frac"} /\ a.v = 1 -> Apx(1)
      [] a.c \in {"wide", "eps", "sml"} /\ a.v = 1 -> Wide(1)
      [] a.c \in {"apx", "wide", "eps", "sml", "frac"} /\ a.v = -1 -> NaN0
      [] a.c = "piq" -> IF a.v > 0 THEN Apx(1) ELSE NaN0
      [] OTHER -> Top

f64_ln(a) ==
    CASE a.c = "nan" -> NaN0
      [] a.c = "zero" -> NInf
      [] a.c = "inf" -> IF a.v = 1 THEN PInf ELSE NaN0
      [] a.c = "int" -> IF a.v < 0 THEN NaN0 ELSE IF a.v = 1 THEN PZero ELSE Apx(1)
      [] a.c \in {"eps", "sml", "frac"} /\ a.v = 1 -> Apx(-1)
      [] a.c \in {"apx", "wide", "eps", "sml", "frac"} /\ a.v = -1 -> NaN0
      [] a.c = "piq" -> IF a.v < 0 THEN NaN0 ELSE IF a.v = 1 THEN Apx(-1) ELSE Apx(1)
      [] a.c \in {"apx", "wide"} -> Fin
      [] OTHER -> Top

\* e^a: beyond 709.78 it is infinite and below -745.13 zero, so an argument of
\* undetermined magnitude leaves the result undetermined; for |a| < 1 it lies
\* between 1/e and e
f64_exp(a) ==
    CASE a.c = "nan" -> NaN0
      [] a.c = "zero" -> I(1)
      [] a.c = "inf" -> IF a.v = 1 THEN PInf ELSE PZero
      [] a.c = "int" -> IF a.v > 709 THEN PInf ELSE IF a.v < -745 THEN PZero ELSE Wide(1)
      [] a.c \in {"eps", "sml", "frac"} -> Apx(1)
      [] OTHER -> Top

\* ------------------------------------------------------------------------
\* Double::exp
\* ------------------------------------------------------------------------
EXP_ZERO_BELOW == -600
EXP_INFINITY_ABOVE == 708

\* a mutation of pre_exp: the overflow shortcut taken from 708 on
pre_exp_OverflowAt708(self) ==
    Cond(FLtInt(self.hi, EXP_ZERO_BELOW), Some(ZERO),
    Cond(TAnd(TNot(FLtInt(self.hi, EXP_INFINITY_ABOVE)), TNot(f64_is_nan(self.hi))),
         Some(INFINITY),
    Cond(Double_is_nan(self), Some(NAN),
    Cond(Double_is_zero(self), Some(ONE),
    Cond(Double_eq(self, ONE), Some(E), None,
    Some(TOP)), Some(TOP)), Some(TOP)), Some(TOP)), Some(TOP))

\* a mutation of pre_exp: the underflow shortcut taken from -600 on
pre_exp_UnderflowAt600(self) ==
    Cond(TAnd(TNot(FGtInt(self.hi, EXP_ZERO_BELOW)),
              TAnd(TNot(f64_is_nan(self.hi)), TNot(f64_is_zero(self.hi)))),
         Some(ZERO),
    Cond(FGtInt(self.hi, EXP_INFINITY_ABOVE), Some(INFINITY),
    Cond(Double_is_nan(self), Some(NAN),
    Cond(Double_is_zero(self), Some(ONE),
    Cond(Double_eq(self, ONE), Some(E), None,
    Some(TOP)), Some(TOP)), Some(TOP)), Some(TOP)), Some(TOP))

\* Double::pre_exp; Some(TOP) when the value does not determine the branch
pre_exp(self) ==
    Cond(FLtInt(self.hi, EXP_ZERO_BELOW), Some(ZERO),
    Cond(FGtInt(self.hi, EXP_INFINITY_ABOVE), Some(INFINITY),
    Cond(Double_is_nan(self), Some(NAN),
    Cond(Double_is_zero(self), Some(ONE),
    Cond(Double_eq(self, ONE), Some(E), None,
    Some(TOP)), Some(TOP)), Some(TOP)), Some(TOP)), Some(TOP))

\* the range reduction, Taylor series and expansion of exp. With an infinite
\* low limb the reduced argument x is infinite and its square feeds the series
\* Inf - Inf, so both limbs come out NaN. For a high limb in [-600, 708] and a
\* low limb at rounding-error scale the value 2^m * (1 + r) is a positive
\* normal number
exp_calc(self) ==
    Cond(f64_is_infinite(self.lo), D(NaN0, NaN0),
        IF FLtInt(self.hi, EXP_ZERO_BELOW) = No /\ FGtInt(self.hi, EXP_INFINITY_ABOVE) = No
           /\ f64_is_finite(self.hi) = Yes /\ (self.lo.c = "zero" \/ Small(self.lo))
        THEN D(Wide(1), Eps(0))
        ELSE TOP,
    TOP)

\* Double::exp
exp(self) ==
    With(pre_exp(self), LAMBDA pre :
    IF pre # None THEN pre[1] ELSE exp_calc(self))

\* ------------------------------------------------------------------------
\* Double::ln and the logarithms built on it
\* ------------------------------------------------------------------------
\* a mutation of pre_ln: the zero test made before the sign test
pre_ln_ZeroFirst(self) ==
    Cond(Double_is_nan(self), Some(NAN),
    Cond(Double_is_zero(self), Some(NEG_INFINITY),
    Cond(Double_is_sign_negative(self), Some(NAN),
    Cond(Double_is_infinite(self), Some(INFINITY),
    Cond(Double_eq(self, ONE), Some(ZERO), None,
    Some(TOP)), Some(TOP)), Some(TOP)), Some(TOP)), Some(TOP))

\* Double::pre_ln; Some(TOP) when the value does not determine the branch
pre_ln(self) ==
    Cond(Double_is_nan(self), Some(NAN),
    Cond(Double_is_sign_negative(self), Some(NAN),
    Cond(Double_is_zero(self), Some(NEG_INFINITY),
    Cond(Double_is_infinite(self), Some(INFINITY),
    Cond(Double_eq(self, ONE), Some(ZERO), None,
    Some(TOP)), Some(TOP)), Some(TOP)), Some(TOP)), Some(TOP))

\* floor(log2(ln v)) for an integer v >= 2: ln v lies in [2^k, 2^(k+1)) exactly
\* when v lies in [e^(2^k), e^(2^(k+1)))
FloorLog2Ln(v) ==
    IF v < 3 THEN -1 ELSE IF v < 8 THEN 0 ELSE IF v < 55 THEN 1 ELSE IF v < 2981 THEN 2
    ELSE IF v < 8886111 THEN 3 ELSE 4

\* let mut x = Double(self.0.ln(), 0.0)
ln_seed(self) == D(f64_ln(self.hi), PZero)

\* the values of log2(|v|).floor() for the finite nonzero f64 values v,
\* subnormals included: the log2 of the values next to 2^1024 rounds to 1024
F64_EXPONENTS == -1074 .. 1024
F64_EXPONENTS_BELOW_ONE == -1074 .. -1

\* let k = x.0.abs().log2().floor() as i32, as the set of the values k can
\* take: log2(0) is -inf and log2(inf) is inf, which the cast saturates to
\* i32::MIN and i32::MAX, and the cast of NaN is 0
ln_k(x) ==
    CASE x.hi.c = "zero" -> {I32_MIN}
      [] x.hi.c = "inf" -> {I32_MAX}
      [] x.hi.c = "nan" -> {0}
      [] x.hi.c = "int" -> {FloorLog2(AbsInt(x.hi.v))}
      [] x.hi.c = "piq" ->
            {IF PiQFloor(x.hi.v) = 0 THEN -1 ELSE FloorLog2(PiQFloor(x.hi.v))}
      [] x.hi.c \in {"eps", "sml", "frac"} /\ x.hi.v # 0 -> F64_EXPONENTS_BELOW_ONE
      [] x.hi.c \in {"eps", "sml"} -> (F64_EXPONENTS_BELOW_ONE) \cup {I32_MIN}
      [] x.hi.c \in {"apx", "wide"} -> F64_EXPONENTS
      [] x.hi.c = "fin" -> (F64_EXPONENTS) \cup {I32_MIN}
      [] OTHER -> (F64_EXPONENTS) \cup {I32_MIN, I32_MAX}

\* the k of the loop for the argument self: for an integer high limb the seed
\* ln(self.0) is placed between the powers of two
ln_k_of(self) ==
    IF self.hi.c = "int" /\ self.hi.v >= 2 THEN {FloorLog2Ln(self.hi.v)}
    ELSE ln_k(ln_seed(self))

\* let eps = Double::EPSILON.mul_pwr2(2f64.powi(k + 2)): EPSILON is 2^-104 and
\* f64 holds nothing between 0 and 2^-1074, so eps is zero when k + 2 < -970.
\* Above i32::MAX - 2 the sum k + 2 overflows: a build with overflow checks
\* panics, and without them the sum wraps to the bottom of i32, where powi
\* gives 0 and eps is zero
ln_eps(k, build) ==
    IF k > I32_MAX - 2 THEN (IF build = "debug" THEN "panic" ELSE "zero")
    ELSE IF (k + 2) < -970 THEN "zero" ELSE "pos"

\* eps for the values k can take under either build: "top" when they do not
\* agree
ln_eps_of(ks) ==
    With({ln_eps(k, build) : k \in ks, build \in {"debug", "release"}}, LAMBDA es :
    IF es = {"zero"} THEN "zero"
    ELSE IF es = {"pos"} THEN "pos"
    ELSE "top")

\* if (x - r).abs() < eps: never true for eps = 0; for eps > 0 the pass on
\* which the step falls under eps, if any does, depends on the digits of the
\* iterates, which the classes do not hold
ln_converged(e) == IF e = "zero" THEN No ELSE Maybe

\* the value the loop returns
ln_calc(self) == D(f64_ln(self.hi), Eps(0))

\* what self.ln() returns when it returns; TOP where eps is not known positive
ln_value(self) ==
    With(pre_ln(self), LAMBDA pre :
    IF pre # None THEN pre[1]
    ELSE IF ln_eps_of(ln_k_of(self)) = "pos" THEN ln_calc(self)
    ELSE TOP)

\* the value a logarithm returns once self.ln() has returned r
log_finish(f, r, a) ==
    CASE f = "ln" -> r
      [] f = "log10" -> div(r, LN_10)
      [] f = "log2" -> div(r, LN_2)
      [] f = "log" -> div(r, ln_value(a[2]))

\* ------------------------------------------------------------------------
\* Double::sqrt, Double::powi and Double::nroot
\* ------------------------------------------------------------------------
\* the literal 0.5 as a Double
HALF == D(Frac(1), PZero)

\* a mutation of sqrt: the sign test made before the zero test
sqrt_SignFirst(self) ==
    Cond(Double_is_sign_negative(self), NAN,
    Cond(Double_is_zero(self), ZERO,
        With(from_div(I(1), f64_sqrt(self.hi)), LAMBDA x :
        With(mul(self, x), LAMBDA ax :
        With(square(ax), LAMBDA ax2 :
        With(Double_sub(self, ax2), LAMBDA d :
        With(mul(d, mul_pwr2_half(x)), LAMBDA c :
        Double_add(ax, c)))))),
    TOP), TOP)

\* Double::sqrt (double/alg/sqrt.rs): one Karp-Markstein step from 1/sqrt(hi)
sqrt(self) ==
    Cond(Double_is_zero(self), ZERO,
    Cond(Double_is_sign_negative(self), NAN,
        With(from_div(I(1), f64_sqrt(self.hi)), LAMBDA x :
        With(mul(self, x), LAMBDA ax :
        With(square(ax), LAMBDA ax2 :
        With(Double_sub(self, ax2), LAMBDA d :
        With(mul(d, mul_pwr2_half(x)), LAMBDA c :
        Double_add(ax, c)))))),
    TOP), TOP)

\* Double::sqrt (double/algebraic.rs): the same step, written with * x * 0.5
algebraic_sqrt(self) ==
    Cond(Double_is_zero(self), ZERO,
    Cond(Double_is_sign_negative(self), from(NaN),
        With(from_div(I(1), f64_sqrt(self.hi)), LAMBDA x :
        With(mul(self, x), LAMBDA ax :
        With(square(ax), LAMBDA ax2 :
        With(Double_sub(self, ax2), LAMBDA d :
        With(mul(d, x), LAMBDA dx :
        With(mul(dx, HALF), LAMBDA c :
        Double_add(ax, c))))))),
    TOP), TOP)

\* the outcome of an operation that can panic: a panic, or the value v
Panicked == [panic |-> TRUE, val |-> 0]
Value(v) == [panic |-> FALSE, val |-> v]

\* i32::abs under a build: at i32::MIN it panics with overflow checks (debug)
\* and wraps to i32::MIN without them (release)
i32_abs(n, build) ==
    IF n = I32_MIN THEN (IF build = "debug" THEN Panicked ELSE Value(I32_MIN))
    ELSE Value(AbsInt(n))

i32_abs_overflows(n, build) == i32_abs(n, build).panic

\* the square-and-multiply loop of powi; once r.square() gives r back and
\* s * r gives s back, the remaining iterations leave both as they are
RECURSIVE powi_loop(_, _, _)
powi_loop(r, s, i) ==
    IF i > 0
    THEN With(IF i % 2 = 1 THEN mul(s, r) ELSE s, LAMBDA s1 :
         With(IF i \div 2 > 0 THEN square(r) ELSE r, LAMBDA r1 :
         IF r1 = r /\ mul(s1, r1) = s1 THEN s1
         ELSE powi_loop(r1, s1, i \div 2)))
    ELSE s

\* Double::powi under a build
powi(self, n, build) ==
    IF n = 0 THEN Value(from(I(1)))
    ELSE IF i32_abs(n, build).panic THEN Panicked
    ELSE
        With(i32_abs(n, build).val, LAMBDA i :
        With(IF i > 1 THEN powi_loop(self, from(I(1)), i) ELSE self, LAMBDA s :
        Value(IF n < 0 THEN div(from(I(1)), s) ELSE s)))

\* let mut x: Double = (-(r.0.ln()) / n as f64).exp().into(): for an integer
\* high limb a >= 2, ln a lies in [0.69, 21.5] and exp(-ln a / n) strictly
\* between 2^-31 and 1
nroot_seed(r, n) ==
    IF r.hi.c = "int" /\ r.hi.v >= 2 /\ n >= 1 THEN from(Frac(1))
    ELSE from(f64_exp(FDiv(FNeg(f64_ln(r.hi)), I(n))))

\* 1.0 - r * x.powi(n): for an r of finite limbs and with an integer high limb
\* the seed x is r^(-1/n) to native precision, so r * x^n is 1 up to rounding
\* and the difference is at rounding-error scale; otherwise the operations are
\* carried out as written
nroot_residual(r, x, n, build) ==
    IF r.hi.c = "int" /\ r.hi.v >= 1 /\ (r.lo.c = "zero" \/ Small(r.lo))
       /\ n >= 1 /\ x = nroot_seed(r, n)
    THEN D(Sml(0), Eps(0))
    ELSE With(powi(x, n, build).val, LAMBDA xn :
         With(mul(r, xn), LAMBDA rxn :
         Double_sub(from(I(1)), rxn)))

\* Double::nroot under a build
nroot(self, n, build) ==
    IF n <= 0 THEN NAN
    ELSE Cond(TAnd(B(n % 2 = 0), Double_is_sign_negative(self)), NAN,
    IF n = 1 THEN self
    ELSE IF n = 2 THEN algebraic_sqrt(self)
    ELSE Cond(Double_is_zero(self), ZERO,
        With(Double_abs(self), LAMBDA r :
        With(nroot_seed(r, n), LAMBDA x0 :
        With(nroot_residual(r, x0, n, build), LAMBDA d :
        With(mul(x0, d), LAMBDA xd :
        With(div(xd, from(I(n))), LAMBDA c :
        With(Double_add(x0, c), LAMBDA x1 :
        With(Cond(Double_is_sign_negative(self), neg(x1), x1, TOP), LAMBDA x2 :
        recip(x2)))))))),
    TOP), TOP)

\* ------------------------------------------------------------------------
\* Quad: four f64 limbs, indexed 1..4 here for the source's 0..3
\* ------------------------------------------------------------------------
Q(a, b, c, d) == <<a, b, c, d>>

Quad_ZERO == Q(PZero, PZero, PZero, PZero)
Quad_ONE == Q(I(1), PZero, PZero, PZero)
Quad_INFINITY == Q(PInf, PZero, PZero, PZero)
Quad_NEG_INFINITY == Q(NInf, PZero, PZero, PZero)
Quad_NAN == Q(NaN, NaN, NaN, NaN)

\* a Quad holding one f64
Quad_from(a) == Q(a, PZero, PZero, PZero)

Quad_TOP == Q(Top, Top, Top, Top)

Quad_is_zero(q) == f64_is_zero(q[1])
Quad_is_sign_negative(q) == f64_is_sign_negative(q[1])
Quad_is_sign_positive(q) == f64_is_sign_positive(q[1])
Quad_is_nan(q) == TOr(f64_is_nan(q[1]), f64_is_nan(q[2]))
Quad_is_infinite(q) ==
    TOr(TOr(f64_is_infinite(q[1]), f64_is_infinite(q[2])),
        TOr(f64_is_infinite(q[3]), f64_is_infinite(q[4])))
Quad_is_finite(q) ==
    TAnd(TAnd(f64_is_finite(q[1]), f64_is_finite(q[2])),
         TAnd(f64_is_finite(q[3]), f64_is_finite(q[4])))

\* Quad::pre_add; Some(Quad_TOP) when the operands do not determine the branch
pre_add(self, other) ==
    Cond(TOr(Quad_is_nan(self), Quad_is_nan(other)), Some(Quad_NAN),
    Cond(Quad_is_infinite(self),
        Cond(Quad_is_infinite(other),
            Cond(Quad_is_sign_positive(self),
                Cond(Quad_is_sign_positive(other), Some(Quad_INFINITY), Some(Quad_NAN),
                     Some(Quad_TOP)),
                Cond(Quad_is_sign_negative(other), Some(Quad_NEG_INFINITY), Some(Quad_NAN),
                     Some(Quad_TOP)),
                Some(Quad_TOP)),
            Cond(Quad_is_sign_positive(self), Some(Quad_INFINITY), Some(Quad_NEG_INFINITY),
                 Some(Quad_TOP)),
            Some(Quad_TOP)),
    Cond(Quad_is_infinite(other),
        Cond(Quad_is_sign_positive(other), Some(Quad_INFINITY), Some(Quad_NEG_INFINITY),
             Some(Quad_TOP)),
        None,
    Some(Quad_TOP)), Some(Quad_TOP)), Some(Quad_TOP))

\* accumulate(u, v, t) -> (s, u', v'): adds t into the two-limb accumulator
\* (u, v), emitting a limb s when both accumulator limbs stay nonzero
accumulate(u, v, t) ==
    With(two_sum(v, t), LAMBDA sb :
    With(two_sum(u, sb[1]), LAMBDA sa :
    Cond(TAnd(FNonZero(sa[2]), FNonZero(sb[2])), <<sa[1], sa[2], sb[2]>>,
    Cond(TNot(FNonZero(sb[2])), <<PZero, sa[1], sa[2]>>, <<PZero, sa[1], sb[2]>>,
    <<Top, Top, Top>>), <<Top, Top, Top>>)))

\* renorm4(a, b, c, d): the canonical four-limb form
renorm4(c0, c1, c2, c3) ==
    Cond(f64_is_infinite(c0), Q(c0, c1, c2, c3),
    With(quick_two_sum(c2, c3), LAMBDA p1 :
    With(quick_two_sum(c1, p1[1]), LAMBDA p2 :
    With(quick_two_sum(c0, p2[1]), LAMBDA p3 :
    With(quick_two_sum(Cond(FNonZero(p3[2]), p3[2], p3[1], Top), p2[2]), LAMBDA q1 :
    With(quick_two_sum(Cond(FNonZero(q1[2]), q1[2], q1[1], Top), p1[2]), LAMBDA q2 :
    Cond(FNonZero(p3[2]),
        Cond(FNonZero(q1[2]), Q(p3[1], q1[1], q2[1], q2[2]), Q(p3[1], q2[1], q2[2], PZero),
             Quad_TOP),
        Cond(FNonZero(q1[2]), Q(q1[1], q2[1], q2[2], PZero), Q(q2[1], q2[2], PZero, PZero),
             Quad_TOP),
        Quad_TOP)))))),
    Quad_TOP)

\* a limb taken by index_and_inc or by the tail loops: from "self" or
\* "other", with i, j and k as they were before it, and where it went:
\* "pick" (u or v at the start), "acc" (accumulate) or "fold" (x[3] +=)
Taken(op, i, j, k, via) == [op |-> op, i |-> i, j |-> j, k |-> k, via |-> via]

\* the merge state of Add::add: i, j count the limbs consumed from self and
\* other, k the output limbs written, (u, v) the accumulator, x the output;
\* log lists the limbs taken, steps counts the passes through the loop, rd
\* and wr collect the indices used to read the operands and to write x; und
\* is set when the limbs do not determine a comparison the merge makes
MergeNone ==
    [i |-> 0, j |-> 0, k |-> 0, u |-> PZero, v |-> PZero,
     x |-> <<PZero, PZero, PZero, PZero>>, brk |-> FALSE,
     log |-> <<>>, steps |-> 0, rd |-> {}, wr |-> {}, und |-> FALSE]

MergeUndet == [MergeNone EXCEPT !.und = TRUE]

MergeStart(self, other) ==
    With(FAbsGt(self[1], other[1]), LAMBDA first :
    IF first = Maybe THEN MergeUndet ELSE
    With(IF first = Yes THEN <<1, 0, self[1]>> ELSE <<0, 1, other[1]>>, LAMBDA a :
    With(FAbsGt(self[a[1] + 1], other[a[2] + 1]), LAMBDA second :
    IF second = Maybe THEN MergeUndet ELSE
    With(renorm2(a[3], IF second = Yes THEN self[a[1] + 1] ELSE other[a[2] + 1]), LAMBDA uv :
    [i |-> IF second = Yes THEN a[1] + 1 ELSE a[1],
     j |-> IF second = Yes THEN a[2] ELSE a[2] + 1,
     k |-> 0, u |-> uv[1], v |-> uv[2],
     x |-> <<PZero, PZero, PZero, PZero>>, brk |-> FALSE,
     log |-> <<Taken(IF first = Yes THEN "self" ELSE "other", 0, 0, 0, "pick"),
               Taken(IF second = Yes THEN "self" ELSE "other", a[1], a[2], 0, "pick")>>,
     steps |-> 0, rd |-> {0, a[1], a[2]}, wr |-> {}, und |-> FALSE]))))

\* the choice of the operand the loop takes its next limb from
MergeFromSelf(self, other, m) ==
    IF m.i >= 4 THEN No
    ELSE IF m.j >= 4 THEN Yes
    ELSE FAbsGt(self[m.i + 1], other[m.j + 1])

\* one pass through the body of `while k < 4`
MergeStep(self, other, m) ==
    IF m.i >= 4 /\ m.j >= 4 THEN
        IF m.k < 3
        THEN [m EXCEPT !.x = [m.x EXCEPT ![m.k + 1] = m.u, ![m.k + 2] = m.v],
                       !.k = m.k + 1, !.brk = TRUE,
                       !.steps = m.steps + 1, !.wr = m.wr \cup {m.k, m.k + 1}]
        ELSE [m EXCEPT !.x = [m.x EXCEPT ![m.k + 1] = m.u], !.brk = TRUE,
                       !.steps = m.steps + 1, !.wr = m.wr \cup {m.k}]
    ELSE IF MergeFromSelf(self, other, m) = Maybe THEN [m EXCEPT !.und = TRUE]
    ELSE
        With(MergeFromSelf(self, other, m) = Yes, LAMBDA fromSelf :
        With(accumulate(m.u, m.v, IF fromSelf THEN self[m.i + 1] ELSE other[m.j + 1]), LAMBDA syz :
        IF FNonZero(syz[1]) = Maybe THEN [m EXCEPT !.und = TRUE] ELSE
        With(FNonZero(syz[1]) = Yes, LAMBDA emit :
        [m EXCEPT !.i = IF fromSelf THEN m.i + 1 ELSE m.i,
                  !.j = IF fromSelf THEN m.j ELSE m.j + 1,
                  !.u = syz[2], !.v = syz[3],
                  !.x = IF emit THEN [m.x EXCEPT ![m.k + 1] = syz[1]] ELSE m.x,
                  !.k = IF emit THEN m.k + 1 ELSE m.k,
                  !.log = Append(m.log, Taken(IF fromSelf THEN "self" ELSE "other",
                                              m.i, m.j, m.k, "acc")),
                  !.steps = m.steps + 1,
                  !.rd = m.rd \cup (IF m.i >= 4 THEN {m.j}
                                    ELSE IF m.j >= 4 THEN {m.i} ELSE {m.i, m.j}),
                  !.wr = IF emit THEN m.wr \cup {m.k} ELSE m.wr])))

RECURSIVE MergeLoop(_, _, _)
\* a loop that stops as soon as either operand is exhausted
MergeLoop_StopWhenExhausted(self, other, m) ==
    IF m.k < 4 /\ ~m.brk /\ ~m.und /\ m.i < 4 /\ m.j < 4
    THEN With(MergeStep(self, other, m), LAMBDA m1 : MergeLoop(self, other, m1))
    ELSE m

\* while k < 4 { ... }, followed as long as the limbs determine it
MergeLoop(self, other, m) ==
    IF m.k < 4 /\ ~m.brk /\ ~m.und
    THEN With(MergeStep(self, other, m), LAMBDA m1 : MergeLoop(self, other, m1))
    ELSE m

RECURSIVE FoldTail(_, _, _)
\* for k in start..4 { x3 += a[k] }
FoldTail(x3, a, start) ==
    IF start >= 4 THEN x3 ELSE FoldTail(FAdd(x3, a[start + 1]), a, start + 1)

\* tail loops that start one limb late
FoldLog_SkipFirst(op, start, m) ==
    [n \in 1 .. (3 - start) |->
        Taken(op, IF op = "self" THEN start + n ELSE 4,
              IF op = "self" THEN m.j ELSE start + n, m.k, "fold")]

\* the limbs start..3 of the operand op, as the tail loops take them
FoldLog(op, start, m) ==
    [n \in 1 .. (4 - start) |->
        Taken(op, IF op = "self" THEN start + n - 1 ELSE 4,
              IF op = "self" THEN m.j ELSE start + n - 1, m.k, "fold")]

\* the merge state after the loop and the two tail loops
merge_trace(self, other) ==
    With(MergeLoop(self, other, MergeStart(self, other)), LAMBDA m :
    IF m.und THEN m ELSE
    [m EXCEPT !.log = m.log \o FoldLog("self", m.i, m) \o FoldLog("other", m.j, m),
              !.x = [m.x EXCEPT ![4] = FoldTail(FoldTail(m.x[4], self, m.i), other, m.j)],
              !.i = 4, !.j = 4,
              !.rd = m.rd \cup (m.i .. 3) \cup (m.j .. 3),
              !.wr = IF m.i < 4 \/ m.j < 4 THEN m.wr \cup {3} ELSE m.wr])

\* the ordinary path of Add::add
add_merge(self, other) ==
    With(MergeStart(self, other), LAMBDA m0 :
    With(MergeLoop(self, other, m0), LAMBDA m :
    IF m.und THEN Quad_TOP ELSE
    With(FoldTail(m.x[4], self, m.i), LAMBDA x3 :
    With(FoldTail(x3, other, m.j), LAMBDA x4 :
    renorm4(m.x[1], m.x[2], m.x[3], x4)))))

\* Add::add for Quad
add(self, other) ==
    With(pre_add(self, other), LAMBDA pre :
    IF pre # None THEN pre[1] ELSE add_merge(self, other))

\* ------------------------------------------------------------------------
\* Quad::powf
\* ------------------------------------------------------------------------
\* self == other on Quad, limb by limb
Quad_eq(a, b) ==
    TAnd(TAnd(FEq(a[1], b[1]), FEq(a[2], b[2])), TAnd(FEq(a[3], b[3]), FEq(a[4], b[4])))

Quad_has_nan_limb(q) ==
    TOr(TOr(f64_is_nan(q[1]), f64_is_nan(q[2])), TOr(f64_is_nan(q[3]), f64_is_nan(q[4])))

\* a computed Quad: high limb h, lower limbs at rounding-error scale
Quad_computed(h) == IF h.c = "top" THEN Quad_TOP ELSE Q(h, Eps(0), Eps(0), Eps(0))

\* the sign of the lower limbs of q taken together: that of the first one that
\* is not zero, 0 when it is not determined
LowSign(q) ==
    IF q[2].c # "zero" THEN FSign(q[2])
    ELSE IF q[3].c # "zero" THEN FSign(q[3])
    ELSE FSign(q[4])

\* the logarithm proper. A high limb of 1 with lower limbs d at rounding-error
\* scale has the logarithm ln(1 + d), of the scale and sign of d; any other
\* value has the native ln of its high limb as high limb
ln_computed(self) ==
    IF self[1] = I(1)
    THEN IF \A i \in 2..4 : self[i].c = "zero" \/ Small(self[i])
         THEN Q(Sml(LowSign(self)), Eps(0), Eps(0), Eps(0))
         ELSE Quad_TOP
    ELSE Quad_computed(f64_ln(self[1]))

\* Quad::ln: the fast paths, else the logarithm proper
Quad_ln(self) ==
    Cond(Quad_is_nan(self), Quad_NAN,
    Cond(Quad_is_sign_negative(self), Quad_NAN,
    Cond(Quad_is_zero(self), Quad_NEG_INFINITY,
    Cond(Quad_is_infinite(self), Quad_INFINITY,
    Cond(Quad_eq(self, Quad_ONE), Quad_ZERO,
    Cond(Quad_has_nan_limb(self), Quad_NAN, ln_computed(self),
    Quad_TOP), Quad_TOP), Quad_TOP), Quad_TOP), Quad_TOP), Quad_TOP)

\* the zero or infinity (class c) signed like the product of self and other
Quad_signed(c, self, other) ==
    Cond(TEq(Quad_is_sign_positive(self), Quad_is_sign_positive(other)),
         Quad_from(F(c, 1)), Quad_from(F(c, -1)), Quad_TOP)

\* self * other on Quad: NaN first, then zero times infinity, infinity, zero
Quad_mul(self, other) ==
    Cond(TOr(Quad_is_nan(self), Quad_is_nan(other)), Quad_NAN,
    Cond(Quad_is_zero(self),
        Cond(Quad_is_infinite(other), Quad_NAN, Quad_signed("zero", self, other), Quad_TOP),
    Cond(Quad_is_infinite(self),
        Cond(Quad_is_zero(other), Quad_NAN, Quad_signed("inf", self, other), Quad_TOP),
    Cond(Quad_is_infinite(other), Quad_signed("inf", self, other),
    Cond(Quad_is_zero(other), Quad_signed("zero", self, other),
    Cond(TOr(Quad_has_nan_limb(self), Quad_has_nan_limb(other)), Quad_NAN,
         Quad_computed(FMul(self[1], other[1])),
    Quad_TOP), Quad_TOP), Quad_TOP), Quad_TOP), Quad_TOP), Quad_TOP)

\* Quad::exp: the fast paths, else a positive finite value
Quad_exp(self) ==
    Cond(Quad_is_nan(self), Quad_NAN,
    Cond(FLtInt(self[1], EXP_ZERO_BELOW), Quad_ZERO,
    Cond(FGtInt(self[1], EXP_INFINITY_ABOVE), Quad_INFINITY,
    Cond(Quad_is_zero(self), Quad_ONE,
    Cond(Quad_has_nan_limb(self), Quad_NAN, Quad_computed(Wide(1)),
    Quad_TOP), Quad_TOP), Quad_TOP), Quad_TOP), Quad_TOP)

\* powf with the zero-base results for positive and negative exponents exchanged
powf_ZeroBaseSwapped(self, n) ==
    Cond(Quad_is_zero(self),
        Cond(Quad_is_zero(n), Quad_NAN,
        Cond(Quad_is_sign_positive(n), Quad_INFINITY, Quad_ZERO, Quad_TOP), Quad_TOP),
    Cond(Quad_is_infinite(n),
        Cond(Quad_eq(self, Quad_ONE), Quad_NAN,
        Cond(Quad_is_sign_positive(n), Quad_INFINITY, Quad_ZERO, Quad_TOP), Quad_TOP),
    Quad_exp(Quad_mul(n, Quad_ln(self))),
    Quad_TOP), Quad_TOP)

\* Quad::powf
powf(self, n) ==
    Cond(Quad_is_zero(self),
        Cond(Quad_is_zero(n), Quad_NAN,
        Cond(Quad_is_sign_positive(n), Quad_ZERO, Quad_INFINITY, Quad_TOP), Quad_TOP),
    Cond(Quad_is_infinite(n),
        Cond(Quad_eq(self, Quad_ONE), Quad_NAN,
        Cond(Quad_is_sign_positive(n), Quad_INFINITY, Quad_ZERO, Quad_TOP), Quad_TOP),
    Quad_exp(Quad_mul(n, Quad_ln(self))),
    Quad_TOP), Quad_TOP)

\* ------------------------------------------------------------------------
\* Quad::atan2
\* ------------------------------------------------------------------------
Quad_PI == Quad_computed(PiQ(4))
Quad_FRAC_PI_2 == Quad_computed(PiQ(2))
Quad_FRAC_PI_4 == Quad_computed(PiQ(1))
Quad_FRAC_3_PI_4 == Quad_computed(PiQ(3))

\* -self on Quad
Quad_neg(q) == Q(FNeg(q[1]), FNeg(q[2]), FNeg(q[3]), FNeg(q[4]))

\* the Newton iterations of atan2 on operands that passed every shortcut: NaN
\* when a limb is NaN; an inexact angle signed like y when both operands are
\* of ordinary magnitude, so that r = (self.sqr() + other.sqr()).sqrt() is
\* finite and nonzero; not determined otherwise, as the squares can overflow
\* or underflow and self / r and other / r then are not numbers
atan2_calc(self, other) ==
    LET Plain(q) ==
            /\ Ordinary(q[1])
            /\ \A n \in 2 .. 4 : q[n].c = "zero" \/ Small(q[n]) \/ Bounded(q[n])
    IN  Cond(TOr(Quad_has_nan_limb(self), Quad_has_nan_limb(other)), Quad_NAN,
             IF Plain(self) /\ Plain(other)
             THEN Quad_computed(Wide(FSign(self[1]))) ELSE Quad_TOP,
             Quad_TOP)

\* atan2 with the two results of the y == -x diagonal exchanged
atan2_DiagonalSwapped(self, other) ==
    Cond(Quad_is_zero(other),
        Cond(Quad_is_zero(self), Quad_NAN,
        Cond(Quad_is_sign_positive(self), Quad_FRAC_PI_2, Quad_neg(Quad_FRAC_PI_2), Quad_TOP),
        Quad_TOP),
    Cond(Quad_is_zero(self),
        Cond(Quad_is_sign_positive(other), Quad_ZERO, Quad_PI, Quad_TOP),
    Cond(Quad_is_infinite(self),
        Cond(Quad_is_infinite(other), Quad_NAN,
        Cond(Quad_is_sign_positive(self), Quad_FRAC_PI_2, Quad_neg(Quad_FRAC_PI_2), Quad_TOP),
        Quad_TOP),
    Cond(Quad_is_infinite(other), Quad_ZERO,
    Cond(TOr(Quad_is_nan(self), Quad_is_nan(other)), Quad_NAN,
    Cond(Quad_eq(self, other),
        Cond(Quad_is_sign_positive(self), Quad_FRAC_PI_4, Quad_neg(Quad_FRAC_3_PI_4), Quad_TOP),
    Cond(Quad_eq(self, Quad_neg(other)),
        Cond(Quad_is_sign_positive(self), Quad_neg(Quad_FRAC_PI_4), Quad_FRAC_3_PI_4, Quad_TOP),
    atan2_calc(self, other),
    Quad_TOP), Quad_TOP), Quad_TOP), Quad_TOP), Quad_TOP), Quad_TOP), Quad_TOP)

\* Quad::atan2: self is y, other is x
atan2(self, other) ==
    Cond(Quad_is_zero(other),
        Cond(Quad_is_zero(self), Quad_NAN,
        Cond(Quad_is_sign_positive(self), Quad_FRAC_PI_2, Quad_neg(Quad_FRAC_PI_2), Quad_TOP),
        Quad_TOP),
    Cond(Quad_is_zero(self),
        Cond(Quad_is_sign_positive(other), Quad_ZERO, Quad_PI, Quad_TOP),
    Cond(Quad_is_infinite(self),
        Cond(Quad_is_infinite(other), Quad_NAN,
        Cond(Quad_is_sign_positive(self), Quad_FRAC_PI_2, Quad_neg(Quad_FRAC_PI_2), Quad_TOP),
        Quad_TOP),
    Cond(Quad_is_infinite(other), Quad_ZERO,
    Cond(TOr(Quad_is_nan(self), Quad_is_nan(other)), Quad_NAN,
    Cond(Quad_eq(self, other),
        Cond(Quad_is_sign_positive(self), Quad_FRAC_PI_4, Quad_neg(Quad_FRAC_3_PI_4), Quad_TOP),
    Cond(Quad_eq(self, Quad_neg(other)),
        Cond(Quad_is_sign_positive(self), Quad_FRAC_3_PI_4, Quad_neg(Quad_FRAC_PI_4), Quad_TOP),
    atan2_calc(self, other),
    Quad_TOP), Quad_TOP), Quad_TOP), Quad_TOP), Quad_TOP), Quad_TOP), Quad_TOP)

\* the outcome of the tests that lead atan2 to one of its shortcuts
atan2_shortcut(self, other) ==
    TOr(TOr(TOr(Quad_is_zero(other), Quad_is_zero(self)),
            TOr(Quad_is_infinite(self), Quad_is_infinite(other))),
        TOr(TOr(Quad_is_nan(self), Quad_is_nan(other)),
            TOr(Quad_eq(self, other), Quad_eq(self, Quad_neg(other)))))

\* ------------------------------------------------------------------------
\* FromStr for Quad: a string is a sequence of one-character strings
\* ------------------------------------------------------------------------
Ok(q) == [tag |-> "Ok", kind |-> "none", val |-> q]
Err(k) == [tag |-> "Err", kind |-> k, val |-> Quad_ZERO]
\* a panic instead of a Result: "attempt to subtract with overflow"
Panic(k) == [tag |-> "Panic", kind |-> k, val |-> Quad_ZERO]

\* to_digit taking the underscore for the digit 0
to_digit_UnderscoreIsZero(ch) ==
    CASE ch = "0" -> Some(0) [] ch = "1" -> Some(1) [] ch = "2" -> Some(2)
      [] ch = "3" -> Some(3) [] ch = "4" -> Some(4) [] ch = "5" -> Some(5)
      [] ch = "6" -> Some(6) [] ch = "7" -> Some(7) [] ch = "8" -> Some(8)
      [] ch = "9" -> Some(9) [] ch = "_" -> Some(0) [] OTHER -> None

\* char::to_digit(10)
to_digit(ch) ==
    CASE ch = "0" -> Some(0) [] ch = "1" -> Some(1) [] ch = "2" -> Some(2)
      [] ch = "3" -> Some(3) [] ch = "4" -> Some(4) [] ch = "5" -> Some(5)
      [] ch = "6" -> Some(6) [] ch = "7" -> Some(7) [] ch = "8" -> Some(8)
      [] ch = "9" -> Some(9) [] OTHER -> None

\* char::is_whitespace: the characters of the Unicode property White_Space,
\* those that have no escape in a string written by their code point
char_is_whitespace(ch) ==
    ch \in {" ", "\t", "\n", "\f", "\r", "U+000B", "U+0085", "U+00A0", "U+1680",
            "U+2000", "U+2001", "U+2002", "U+2003", "U+2004", "U+2005", "U+2006",
            "U+2007", "U+2008", "U+2009", "U+200A", "U+2028", "U+2029", "U+202F",
            "U+205F", "U+3000"}

\* str::trim_start
RECURSIVE trim_start(_)
trim_start(s) ==
    IF s # <<>> /\ char_is_whitespace(Head(s)) THEN trim_start(Tail(s)) ELSE s

\* str::trim_end
RECURSIVE trim_end(_)
trim_end(s) ==
    IF s # <<>> /\ char_is_whitespace(s[Len(s)])
    THEN trim_end(SubSeq(s, 1, Len(s) - 1)) ELSE s

\* str::trim
trim(s) == trim_end(trim_start(s))

\* char::to_ascii_lowercase: the letters A to Z to a to z, any other
\* character unchanged
char_to_ascii_lowercase(ch) ==
    LET upper == <<"A", "B", "C", "D", "E", "F", "G", "H", "I", "J", "K", "L", "M",
                   "N", "O", "P", "Q", "R", "S", "T", "U", "V", "W", "X", "Y", "Z">>
        lower == <<"a", "b", "c", "d", "e", "f", "g", "h", "i", "j", "k", "l", "m",
                   "n", "o", "p", "q", "r", "s", "t", "u", "v", "w", "x", "y", "z">>
    IN  IF \E i \in 1 .. 26 : upper[i] = ch
        THEN lower[CHOOSE i \in 1 .. 26 : upper[i] = ch]
        ELSE ch

\* str::to_ascii_lowercase
to_ascii_lowercase(s) == [i \in 1 .. Len(s) |-> char_to_ascii_lowercase(s[i])]


\* the digits of str::parse::<i32>: None on a character that is no digit and
\* when the value leaves the i32 range
RECURSIVE i32_digits(_, _, _)
i32_digits(v, t, negative) ==
    IF t = <<>> THEN Some(v)
    ELSE With(to_digit(Head(t)), LAMBDA d :
         IF d = None THEN None
         ELSE IF negative THEN
             IF v < -(I32_MAX \div 10) \/ (v = -(I32_MAX \div 10) /\ d[1] > (I32_MAX % 10) + 1)
             THEN None
             ELSE i32_digits(v * 10 - d[1], Tail(t), negative)
         ELSE IF v > I32_MAX \div 10 \/ (v = I32_MAX \div 10 /\ d[1] > I32_MAX % 10)
             THEN None
             ELSE i32_digits(v * 10 + d[1], Tail(t), negative))

\* str::parse::<i32>: an optional sign, then at least one digit
parse_i32(t) ==
    IF t = <<>> THEN None
    ELSE IF Head(t) \in {"+", "-"} THEN
        IF Tail(t) = <<>> THEN None ELSE i32_digits(0, Tail(t), Head(t) = "-")
    ELSE i32_digits(0, t, FALSE)

\* the largest n for which the model holds 10^n as an exact integer
MaxExactPow10 == 4
\* f64::MAX_10_EXP
F64_MAX_10_EXP == 308

\* TEN.powi(n): exact for small n and a finite positive value within the
\* f64 range; past it the squarings and products overflow, the error terms
\* of an overflowed product are not numbers, and the limbs of the result
\* (and of its reciprocal for negative n) are not determined
ten_powi(n) ==
    IF n = 0 THEN Quad_ONE
    ELSE IF n > F64_MAX_10_EXP THEN Quad_TOP
    ELSE IF n > MaxExactPow10 THEN Quad_computed(Wide(1))
    ELSE IF n > 0 THEN Quad_from(I(10 ^ n))
    ELSE IF n >= -MaxExactPow10 THEN Quad_computed(Frac(1))
    ELSE IF n >= -F64_MAX_10_EXP THEN Quad_computed(Wide(1))
    ELSE Quad_TOP

TWO_STAGE_BELOW == -307

\* a - b on i32 for b >= 0: whether it leaves the range, and the value it
\* wraps to when overflow checks are off
i32_sub_overflows(a, b) == b > 0 /\ a < I32_MIN + b
i32_wrapping_sub(a, b) ==
    IF i32_sub_overflows(a, b) THEN I32_MAX - (b - 1) + (a - I32_MIN) ELSE a - b

\* from_str after its loop: st holds the integer value of result, the
\* counters digits, point and sign, and the build (overflow checks on in
\* "debug", off in "release"); e is the parsed exponent, exp1 the variable
\* exp after the adjustment for the decimal point
from_str_finish(st, e) ==
    IF st.point >= 0 /\ i32_sub_overflows(e, st.digits - st.point) /\ st.build = "debug"
    THEN Panic("overflow")
    ELSE
    With(IF st.point >= 0 THEN i32_wrapping_sub(e, st.digits - st.point) ELSE e, LAMBDA exp1 :
    With(Quad_from(I(st.mant)), LAMBDA r0 :
    With(IF exp1 = 0 THEN r0
         ELSE IF exp1 < TWO_STAGE_BELOW
              THEN Quad_mul(Quad_mul(r0, ten_powi(exp1 - TWO_STAGE_BELOW)),
                            ten_powi(TWO_STAGE_BELOW))
              ELSE Quad_mul(r0, ten_powi(exp1)), LAMBDA r1 :
    Ok(IF st.sign = -1 THEN Quad_neg(r1) ELSE r1))))

\* the loop of from_str over the characters of s, from position index on
RECURSIVE from_str_loop(_, _, _)
from_str_loop(s, index, st) ==
    IF index > Len(s) THEN from_str_finish(st, 0)
    ELSE With(s[index], LAMBDA ch :
         With(to_digit(ch), LAMBDA d :
         IF d # None THEN
             from_str_loop(s, index + 1,
                           [st EXCEPT !.mant = @ * 10 + d[1], !.digits = @ + 1])
         ELSE IF ch = "." THEN
             IF st.point >= 0 THEN Err("Invalid")
             ELSE from_str_loop(s, index + 1, [st EXCEPT !.point = st.digits])
         ELSE IF ch = "-" THEN
             IF st.sign # 0 \/ st.digits > 0 THEN Err("Invalid")
             ELSE from_str_loop(s, index + 1, [st EXCEPT !.sign = -1])
         ELSE IF ch = "+" THEN
             IF st.sign # 0 \/ st.digits > 0 THEN Err("Invalid")
             ELSE from_str_loop(s, index + 1, [st EXCEPT !.sign = 1])
         ELSE IF ch \in {"e", "E"} THEN
             With(parse_i32(SubSeq(s, index + 1, Len(s))), LAMBDA e :
             IF e = None THEN Err("Invalid") ELSE from_str_finish(st, e[1]))
         ELSE IF ch = "_" THEN from_str_loop(s, index + 1, st)
         ELSE Err("Invalid")))

\* TRUE when from_str returns before its loop
from_str_early(str) ==
    With(trim(str), LAMBDA s :
    s = <<>> \/ to_ascii_lowercase(s) \in {<<"n", "a", "n">>, <<"i", "n", "f">>,
                                            <<"-", "i", "n", "f">>})

\* from_str reporting Invalid for an empty input
from_str_EmptyAsInvalid(str, build) ==
    With(trim(str), LAMBDA s :
    IF s = <<>> THEN Err("Invalid")
    ELSE IF to_ascii_lowercase(s) = <<"n", "a", "n">> THEN Ok(Quad_NAN)
    ELSE IF to_ascii_lowercase(s) = <<"i", "n", "f">> THEN Ok(Quad_INFINITY)
    ELSE IF to_ascii_lowercase(s) = <<"-", "i", "n", "f">> THEN Ok(Quad_NEG_INFINITY)
    ELSE from_str_loop(s, 1, [mant |-> 0, digits |-> 0, point |-> -1, sign |-> 0,
                              build |-> build]))

\* <Quad as FromStr>::from_str
from_str(str, build) ==
    With(trim(str), LAMBDA s :
    IF s = <<>> THEN Err("Empty")
    ELSE IF to_ascii_lowercase(s) = <<"n", "a", "n">> THEN Ok(Quad_NAN)
    ELSE IF to_ascii_lowercase(s) = <<"i", "n", "f">> THEN Ok(Quad_INFINITY)
    ELSE IF to_ascii_lowercase(s) = <<"-", "i", "n", "f">> THEN Ok(Quad_NEG_INFINITY)
    ELSE from_str_loop(s, 1, [mant |-> 0, digits |-> 0, point |-> -1, sign |-> 0,
                              build |-> build]))

\* ------------------------------------------------------------------------
\* powi (Quad and Double) on exact powers: r and s are held as the
\* exponents of self they stand for, so that s *= r adds and r.sqr() doubles
\* ------------------------------------------------------------------------
\* an outcome: kind "none" (no call), "panic", "one" (the constant ONE) or
\* "power" (self to the power pow, reciprocated when recip), with the
\* numbers of squarings and of multiplications made
PowiOutcome(k, p, q, m, rc) == [kind |-> k, pow |-> p, sqrs |-> q, muls |-> m, recip |-> rc]
PowiNone == PowiOutcome("none", 0, 0, 0, FALSE)

\* while k > 0 { if k % 2 == 1 { s *= r } k /= 2; if k > 0 { r = r.sqr() } }
RECURSIVE powi_exact_loop(_, _, _, _, _)
powi_exact_loop(r, s, k, q, m) ==
    IF k > 0
    THEN powi_exact_loop(IF k \div 2 > 0 THEN r * 2 ELSE r,
                         IF k % 2 = 1 THEN s + r ELSE s,
                         k \div 2,
                         IF k \div 2 > 0 THEN q + 1 ELSE q,
                         IF k % 2 = 1 THEN m + 1 ELSE m)
    ELSE PowiOutcome("power", s, q, m, FALSE)

\* powi(self, n): self stands for the power 1, ONE for the power 0
powi_exact(n, build) ==
    IF n = 0 THEN PowiOutcome("one", 0, 0, 0, FALSE)
    ELSE IF i32_abs_overflows(n, build) THEN PowiOutcome("panic", 0, 0, 0, FALSE)
    ELSE With(IF i32_abs(n, build).val > 1
              THEN powi_exact_loop(1, 0, i32_abs(n, build).val, 0, 0)
              ELSE PowiOutcome("power", 1, 0, 0, FALSE), LAMBDA s :
         IF n < 0 THEN [s EXCEPT !.recip = TRUE] ELSE s)

\* ------------------------------------------------------------------------
\* Quad::sqr on exact limbs: f64 values as integers rounded to MantissaBits
\* significant bits, so that the sums of the limbs can be compared exactly
\* ------------------------------------------------------------------------
MantissaBits == 3

RECURSIVE Ulp(_)
\* the spacing of the representable values around x
Ulp(x) == IF AbsInt(x) < 2 ^ MantissaBits THEN 1 ELSE 2 * Ulp(AbsInt(x) \div 2)

\* x rounded to the nearest representable value, ties to even
fl(x) ==
    With(Ulp(x), LAMBDA ulp :
    With(AbsInt(x) \div ulp, LAMBDA q :
    With(AbsInt(x) % ulp, LAMBDA rem :
    Sgn(x) * ulp * (IF 2 * rem > ulp \/ (2 * rem = ulp /\ q % 2 = 1) THEN q + 1 ELSE q))))

\* a + b and a * b on f64
fl_add(a, b) == fl(a + b)
fl_mul(a, b) == fl(a * b)

\* the error-free transformations: high limb the rounded result, low limb
\* the exact remainder
two_sum_exact(a, b) == <<fl(a + b), a + b - fl(a + b)>>
two_prod_exact(a, b) == <<fl(a * b), a * b - fl(a * b)>>
two_sqr_exact(a) == two_prod_exact(a, a)

\* quick_two_sum: s = a + b and e = b - (s - a), each operation rounded; e is
\* the exact remainder when |a| >= |b|, which the caller has to guarantee
quick_two_sum_exact(a, b) ==
    With(fl(a + b), LAMBDA s : <<s, fl(b - fl(s - a))>>)

\* the state of sqr at the call of renorm5: the operand c, the ten partial
\* products h (h0, l0, h1, l1, h2, l2, h3, l3, h4, h5), the five limbs r,
\* the rounding error of each plain addition (e1 + f1, then the four of r4),
\* what each of the three quick_two_sum calls leaves out, and whether each of
\* them was called with |a| >= |b|
SqrLimbs(c, h, r, lost, quick, ordered) ==
    [c |-> c, h |-> h, r |-> r, lost |-> lost, quick |-> quick, ordered |-> ordered]
SqrNone ==
    SqrLimbs(<<0, 0, 0, 0>>, <<0, 0, 0, 0, 0, 0, 0, 0, 0, 0>>, <<0, 0, 0, 0, 0>>,
             <<0, 0, 0, 0, 0>>, <<0, 0, 0>>, <<TRUE, TRUE, TRUE>>)

\* r4 = m1 + n1 + o1 + k1 + q1, added left to right: the sum and the
\* rounding error of each addition
sqr_r4(m1, n1, o1, k1, q1) ==
    With(fl_add(m1, n1), LAMBDA s1 :
    With(fl_add(s1, o1), LAMBDA s2 :
    With(fl_add(s2, k1), LAMBDA s3 :
    With(fl_add(s3, q1), LAMBDA s4 :
    <<s4, m1 + n1 - s1, s1 + o1 - s2, s2 + k1 - s3, s3 + q1 - s4>>))))

\* the ten partial products h0, l0, h1, l1, h2, l2, h3, l3, h4, h5
sqr_products(self) ==
    two_sqr_exact(self[1]) \o two_prod_exact(2 * self[1], self[2])
    \o two_prod_exact(2 * self[1], self[3]) \o two_sqr_exact(self[2])
    \o <<fl_mul(2 * self[1], self[4]), fl_mul(2 * self[2], self[3])>>

\* r1 and the sums b0, b1, c0, c1
sqr_head(h) ==
    With(two_sum_exact(h[3], h[2]), LAMBDA ra :
    With(two_sum_exact(ra[2], h[4]), LAMBDA b :
    With(two_sum_exact(h[5], h[7]), LAMBDA cc :
    <<ra[1], b[1], b[2], cc[1], cc[2]>>)))

\* d, e, f and e1 + f1: d0, f0, the sum e1 + f1 and its rounding error
sqr_middle(a) ==
    With(two_sum_exact(a[2], a[4]), LAMBDA d :
    With(two_sum_exact(a[3], a[5]), LAMBDA e :
    With(two_sum_exact(d[2], e[1]), LAMBDA f :
    <<d[1], f[1], fl_add(e[2], f[2]), e[2] + f[2] - fl_add(e[2], f[2])>>)))

\* i, j, k: r2, k0, k1, then what the three quick_two_sum calls leave out and
\* whether their operands came in the order of magnitude
sqr_carry(m) ==
    With(quick_two_sum_exact(m[2], m[3]), LAMBDA ii :
    With(quick_two_sum_exact(m[1], ii[1]), LAMBDA rj :
    With(quick_two_sum_exact(ii[2], rj[2]), LAMBDA kk :
    <<rj[1], kk[1], kk[2],
      <<m[2] + m[3] - ii[1] - ii[2], m[1] + ii[1] - rj[1] - rj[2],
        ii[2] + rj[2] - kk[1] - kk[2]>>,
      <<AbsInt(m[2]) >= AbsInt(m[3]), AbsInt(m[1]) >= AbsInt(ii[1]),
        AbsInt(ii[2]) >= AbsInt(rj[2])>> >>)))

\* m, n, o, r3 and r4: r3, r4 and the rounding errors of r4
sqr_tail(h, k) ==
    With(two_sum_exact(h[9], h[10]), LAMBDA mm :
    With(two_sum_exact(h[6], h[8]), LAMBDA nn :
    With(two_sum_exact(mm[1], nn[1]), LAMBDA oo :
    With(two_sum_exact(k[2], oo[1]), LAMBDA rq :
    <<rq[1]>> \o sqr_r4(mm[2], nn[2], oo[2], k[3], rq[2])))))

\* the limbs r0..r4 from the stages of the chain
sqr_collect(self, h, a, m, k, t) ==
    SqrLimbs(self, h, <<h[1], a[1], k[1], t[1], t[2]>>, <<m[4], t[3], t[4], t[5], t[6]>>,
             k[4], k[5])

\* Quad::sqr up to the call of renorm5
sqr_limbs(self) ==
    With(sqr_products(self), LAMBDA h :
    With(sqr_head(h), LAMBDA a :
    With(sqr_middle(a), LAMBDA m :
    With(sqr_carry(m), LAMBDA k :
    sqr_collect(self, h, a, m, k, sqr_tail(h, k))))))

\* ------------------------------------------------------------------------
\* the Taylor loop of Double::exp, on the degrees of its terms
\* ------------------------------------------------------------------------
\* the high limbs of tables::INV_FACTS to five digits: m * 10^e
InvFact(m, e) == [m |-> m, e |-> e]
INV_FACTS ==
    <<InvFact(16666, -5), InvFact(41666, -6), InvFact(83333, -7),
      InvFact(13888, -7), InvFact(19841, -8), InvFact(24801, -9),
      InvFact(27557, -10), InvFact(27557, -11), InvFact(25052, -12),
      InvFact(20876, -13), InvFact(16059, -14), InvFact(11470, -15),
      InvFact(76471, -17), InvFact(47794, -18), InvFact(28114, -19)>>

\* eps = INV_K * Double::EPSILON = 2^-9 * 2^-104
EPS_LOG2 == -113

\* the reduced argument x: a power of two 2^-e, zero, or NaN
XPow2(e) == [k |-> "pow2", e |-> e]
XZero == [k |-> "zero", e |-> 0]
XNaN == [k |-> "nan", e |-> 0]

\* t.abs() <= eps for t = x^n * INV_FACTS[i] (false when t is NaN):
\* m * 10^e * 2^(-x.e * n) <= 2^EPS_LOG2
term_below_eps(x, n, i) ==
    CASE x.k = "nan" -> FALSE
      [] x.k = "zero" -> TRUE
      [] OTHER ->
            With(x.e * n + EPS_LOG2, LAMBDA d :
            IF d >= 0 THEN TRUE
            ELSE IF d <= -31 THEN FALSE
            ELSE INV_FACTS[i + 1].m <= (10 ^ (-INV_FACTS[i + 1].e)) \div (2 ^ (-d)))

\* a term t = p * INV_FACTS[i] as formed: the table index and the power of x
\* held by p
TaylorTerm(i, n) == [i |-> i, n |-> n]

\* the state of the loop: the index i, the power of x held by p, the term t,
\* the degrees of the terms added into r, the terms formed, the passes made
TaylorState(i, p, t, r, formed, passes, done) ==
    [i |-> i, p |-> p, t |-> t, r |-> r, formed |-> formed, passes |-> passes, done |-> done]
TaylorNone == TaylorState(0, 0, TaylorTerm(0, 0), <<>>, <<>>, 0, FALSE)

\* p = x.sqr(); r = x + p.mul_pwr2(0.5); p *= x; t = p * INV_FACTS[0]; i = 0
taylor_start == TaylorState(0, 3, TaylorTerm(0, 3), <<1, 2>>, <<TaylorTerm(0, 3)>>, 0, FALSE)

\* a loop that tests the term before forming the next one
taylor_step_TestsFirst(x, s) ==
    IF s.i >= 5 \/ term_below_eps(x, s.p, s.i)
    THEN [s EXCEPT !.done = TRUE]
    ELSE TaylorState(s.i + 1, s.p + 1, TaylorTerm(s.i + 1, s.p + 1), Append(s.r, s.t.n),
                     Append(s.formed, TaylorTerm(s.i + 1, s.p + 1)), s.passes + 1, FALSE)

\* one pass: r += t; p *= x; i += 1; t = p * INV_FACTS[i]; then the exit test
taylor_step(x, s) ==
    TaylorState(s.i + 1, s.p + 1, TaylorTerm(s.i + 1, s.p + 1), Append(s.r, s.t.n),
                Append(s.formed, TaylorTerm(s.i + 1, s.p + 1)), s.passes + 1,
                s.i + 1 >= 5 \/ term_below_eps(x, s.p + 1, s.i + 1))

RECURSIVE taylor_loop(_, _)
taylor_loop(x, s) == IF s.done THEN s ELSE taylor_loop(x, taylor_step(x, s))

\* the loop and the r += t that follows it
exp_taylor(x) ==
    With(taylor_loop(x, taylor_start), LAMBDA s : [s EXCEPT !.r = Append(s.r, s.t.n)])


\* ------------------------------------------------------------------------
\* the calls under study, as a state machine
\* ------------------------------------------------------------------------
VARIABLES
    pc,     \* "idle" before a call, "ln_loop" inside the Newton loop of ln, "done" after
    fn,     \* the function called
    args,   \* its Double arguments, self first
    deg,    \* the degree n of an nroot call (0 otherwise)
    res,    \* its Double result once pc = "done"
    qargs,  \* the Quad operands of a Quad call
    qres,   \* the Quad result of a Quad call
    sin,    \* the input string of a from_str call
    pres,   \* the Result of a from_str call
    bld,   \* the build of the last from_str: overflow checks on ("debug") or off
    mg,    \* the merge state at the end of a Quad addition
    sq,    \* the limbs of Quad::sqr at the call of renorm5
    tl,    \* the Taylor loop of the last exp
    pw,    \* the outcome of a powi call on exact powers of self
    path,   \* "fast" when a shortcut returned, "calc" when the computation ran
    iter,   \* iterations of the ln loop started so far
    acc,    \* accuracy of the ln iterate: "seed" (native) or "full" (double-double)
    tol     \* the ln loop's eps: "zero", "pos" or "top"

vars == <<pc, fn, args, deg, res, qargs, qres, sin, pres, bld, mg, sq, tl, pw, path, iter, acc, tol>>

\* sample high limbs of finite nonzero arguments
HiInts == {-700, -601, -600, -3, -1, 1, 2, 4, 708, 709}
LoLimbs == {PZero, Eps(1), Eps(-1)}

\* the Double arguments: finite values with and without a low limb, the named
\* special values, and encodings whose low limb alone is NaN
Doubles ==
    {D(I(h), l) : h \in HiInts, l \in LoLimbs}
    \cup {ZERO, NEG_ZERO, INFINITY, NEG_INFINITY, NAN, D(NaN, PZero)}
    \cup {D(I(2), NaN), D(I(-700), NaN), D(I(709), NaN)}

\* the Quad arguments: finite values with exactly known limbs, the named
\* special values, and encodings that carry a NaN or an infinity in a lower
\* limb only
Quads ==
    {Quad_ZERO, Quad_ONE, Quad_INFINITY, Quad_NEG_INFINITY, Quad_NAN,
     Q(NZero, PZero, PZero, PZero), Q(NaN, PZero, PZero, PZero),
     Q(I(-3), PZero, PZero, PZero), Q(I(16), I(4), I(-1), PZero),
     Q(I(-8), I(-2), PZero, PZero), Q(I(5), I(3), I(2), I(1)),
     Q(I(1), NaN, PZero, PZero), Q(I(1), PZero, NaN, PZero), Q(I(-2), PZero, PZero, NaN),
     Q(I(-5), PZero, PZero, PInf), Q(PInf, PInf, PInf, PInf)}

\* the bases of powf: zeros, one, values above and below one, negative
\* values, infinities and NaN encodings
PowfBases ==
    {Quad_ZERO, Quad_from(NZero), Quad_ONE, Quad_from(I(2)), Quad_from(I(3)),
     Q(I(1), Eps(1), PZero, PZero), Quad_from(Frac(1)), Quad_from(Frac(-1)),
     Quad_from(I(-1)), Quad_INFINITY, Quad_NEG_INFINITY,
     Quad_NAN, Quad_from(NaN), Q(I(1), PZero, NaN, PZero)}

\* the exponents of powf
PowfExponents ==
    {Quad_ZERO, Quad_from(NZero), Quad_ONE, Quad_from(I(3)), Quad_from(I(-2)),
     Quad_from(Frac(1)), Quad_from(Frac(-1)), Quad_INFINITY, Quad_NEG_INFINITY,
     Quad_NAN, Quad_from(NaN), Q(I(2), PZero, PZero, NaN)}

\* the operands of atan2: zeros, finite values with their negations,
\* infinities and NaN encodings
Atan2Operands ==
    {Quad_ZERO, Quad_from(NZero), Quad_ONE, Quad_from(I(-1)), Quad_from(I(2)),
     Quad_from(I(-2)), Q(I(5), I(3), I(2), I(1)), Q(I(-5), I(-3), I(-2), I(-1)),
     Quad_INFINITY, Quad_NEG_INFINITY, Q(I(-5), PZero, PZero, PInf),
     Quad_NAN, Quad_from(NaN), Q(I(1), NaN, PZero, PZero), Q(I(1), PZero, NaN, PZero)}

\* the longest input string of from_str
MaxLen == 4

\* the strings of at most n characters of A
Strs(A, n) == UNION {[1 .. k -> A] : k \in 0 .. n}
\* inputs with an exponent at the ends of the i32 range, one past them, and
\* around the two-stage threshold, after mantissas with and without
\* fractional digits
EdgeExponents ==
    {<<"-", "2", "1", "4", "7", "4", "8", "3", "6", "4", "8">>,
     <<"-", "2", "1", "4", "7", "4", "8", "3", "6", "4", "7">>,
     <<"-", "2", "1", "4", "7", "4", "8", "3", "6", "4", "9">>,
     <<"2", "1", "4", "7", "4", "8", "3", "6", "4", "7">>,
     <<"2", "1", "4", "7", "4", "8", "3", "6", "4", "8">>,
     <<"-", "3", "0", "7">>, <<"-", "3", "0", "8">>, <<"-", "4", "0", "0">>}
EdgeMantissas ==
    {<<"5">>, <<"5", ".">>, <<"5", ".", "5">>, <<".", "5", "5">>, <<"-", "0", ".", "5">>}
EdgeInputs == {m \o <<"e">> \o e : m \in EdgeMantissas, e \in EdgeExponents}

\* the inputs of from_str: strings of the characters of numeric inputs ("x"
\* stands for any other character), of the letters of the literals in both
\* cases, and of a digit among whitespace characters
ParseInputs ==
    Strs({"0", "5", ".", "-", "+", "e", "E", "_", " ", "x"}, MaxLen)
    \cup Strs({"n", "a", "i", "f", "N", "A", "I", "F", "-"}, MaxLen)
    \cup Strs({"5", " ", "\t", "\n", "U+00A0", "U+3000"}, MaxLen)
    \cup EdgeInputs

\* the exponents of powi: every n up to MaxPowiExp in magnitude and the
\* ends of the i32 range
MaxPowiExp == 40
PowiExponents == (-MaxPowiExp .. MaxPowiExp) \cup {I32_MIN, I32_MIN + 1, I32_MAX}

\* the bases b of log(b)
Bases == {I(2), I(9), I(1), PZero}

\* the number of passes through the ln loop the model follows
MaxLnIter == 24

\* the degrees n of nroot(n)
MaxDegree == 5
RootDegrees == -1 .. MaxDegree

Init ==
    /\ pc = "idle"
    /\ fn = "none"
    /\ args = <<>>
    /\ deg = 0
    /\ res = ZERO
    /\ qargs = <<>>
    /\ qres = Quad_ZERO
    /\ sin = <<>>
    /\ pres = Ok(Quad_ZERO)
    /\ bld = "release"
    /\ mg = MergeNone
    /\ sq = SqrNone
    /\ tl = TaylorNone
    /\ pw = PowiNone
    /\ path = "none"
    /\ iter = 0
    /\ acc = "seed"
    /\ tol = "pos"

Return(f, a, r, p) ==
    /\ pc' = "done"
    /\ fn' = f
    /\ args' = a
    /\ res' = r
    /\ path' = p
    /\ UNCHANGED <<bld, tl, sq, mg, pw, sin, pres, deg, qargs, qres, iter, acc, tol>>

\* self * other
CallMul ==
    /\ pc = "idle"
    /\ \E self \in Doubles, other \in Doubles :
          Return("mul", <<self, other>>, mul(self, other),
                 IF Yes \in {Double_is_nan(self), Double_is_nan(other),
                            Double_is_zero(self), Double_is_infinite(self),
                            Double_is_infinite(other)}
                 THEN "fast" ELSE "calc")

\* self + other on Quad
CallQuadAdd ==
    /\ pc = "idle"
    /\ \E self \in Quads, other \in Quads :
          /\ pc' = "done"
          /\ fn' = "quad_add"
          /\ qargs' = <<self, other>>
          /\ qres' = add(self, other)
          /\ mg' = (IF pre_add(self, other) = None THEN merge_trace(self, other) ELSE MergeNone)
          /\ path' = (IF pre_add(self, other) = None THEN "calc" ELSE "fast")
          /\ UNCHANGED <<bld, tl, sq, pw, sin, pres, args, deg, res, iter, acc, tol>>

\* self.exp()
CallExp ==
    /\ pc = "idle"
    /\ \E self \in Doubles :
          Return("exp", <<self>>, exp(self), IF pre_exp(self) = None THEN "calc" ELSE "fast")

\* the entry of ln (f = "ln") or of log10, log2, log(b), which start with self.ln()
EnterLn(f, a) ==
    IF pre_ln(a[1]) # None
    THEN Return(f, a, log_finish(f, pre_ln(a[1])[1], a), "fast")
    ELSE /\ pc' = "ln_loop"
         /\ fn' = f
         /\ args' = a
         /\ path' = "calc"
         /\ iter' = 0
         /\ acc' = "seed"
         /\ tol' = ln_eps_of(ln_k_of(a[1]))
         /\ UNCHANGED <<bld, tl, sq, mg, pw, sin, pres, deg, res, qargs, qres>>

CallLn ==
    /\ pc = "idle"
    /\ \E self \in Doubles : EnterLn("ln", <<self>>)

CallLog10 ==
    /\ pc = "idle"
    /\ \E self \in Doubles : EnterLn("log10", <<self>>)

CallLog2 ==
    /\ pc = "idle"
    /\ \E self \in Doubles : EnterLn("log2", <<self>>)

CallLog ==
    /\ pc = "idle"
    /\ \E self \in Doubles, b \in Bases : EnterLn("log", <<self, from(b)>>)

\* one pass through the body of the Newton loop of ln
LnIterate ==
    /\ pc = "ln_loop"
    /\ iter < MaxLnIter
    /\ \E returns \in ln_converged(tol) :
       IF returns
       THEN /\ pc' = "done"
            /\ res' = log_finish(fn, ln_calc(args[1]), args)
            /\ UNCHANGED <<bld, tl, sq, mg, pw, sin, pres, fn, args, deg, qargs, qres, path, acc, tol>>
            /\ iter' = iter + 1
       ELSE /\ iter' = iter + 1
            /\ acc' = "full"
            /\ UNCHANGED <<bld, tl, sq, mg, pw, sin, pres, pc, fn, args, deg, res, qargs, qres, path, tol>>

\* self.sqrt() of double/alg/sqrt.rs
CallSqrt ==
    /\ pc = "idle"
    /\ \E self \in Doubles :
          Return("sqrt", <<self>>, sqrt(self),
                 IF Yes \in {Double_is_zero(self), Double_is_sign_negative(self)}
                 THEN "fast" ELSE "calc")

\* self.sqrt() of double/algebraic.rs
CallAlgebraicSqrt ==
    /\ pc = "idle"
    /\ \E self \in Doubles :
          Return("algebraic_sqrt", <<self>>, algebraic_sqrt(self),
                 IF Yes \in {Double_is_zero(self), Double_is_sign_negative(self)}
                 THEN "fast" ELSE "calc")

\* self.nroot(n)
CallNRoot ==
    /\ pc = "idle"
    /\ \E self \in Doubles, n \in RootDegrees, build \in {"debug", "release"} :
          /\ pc' = "done"
          /\ fn' = "nroot"
          /\ args' = <<self>>
          /\ deg' = n
          /\ bld' = build
          /\ res' = nroot(self, n, build)
          /\ path' = (IF n <= 2 \/ (Double_is_sign_negative(self) = Yes /\ n % 2 = 0)
                         \/ Double_is_zero(self) = Yes
                      THEN "fast" ELSE "calc")
          /\ UNCHANGED <<tl, sq, mg, pw, sin, pres, qargs, qres, iter, acc, tol>>

\* self.powf(n) on Quad
CallPowf ==
    /\ pc = "idle"
    /\ \E self \in PowfBases, n \in PowfExponents :
          /\ pc' = "done"
          /\ fn' = "powf"
          /\ qargs' = <<self, n>>
          /\ qres' = powf(self, n)
          /\ path' = (IF Yes \in {Quad_is_zero(self), Quad_is_infinite(n)}
                      THEN "fast" ELSE "calc")
          /\ UNCHANGED <<bld, tl, sq, mg, pw, sin, pres, args, deg, res, iter, acc, tol>>

\* self.atan2(other) on Quad
CallAtan2 ==
    /\ pc = "idle"
    /\ \E self \in Atan2Operands, other \in Atan2Operands :
          /\ pc' = "done"
          /\ fn' = "atan2"
          /\ qargs' = <<self, other>>
          /\ qres' = atan2(self, other)
          /\ path' = (IF atan2_shortcut(self, other) = Yes THEN "fast" ELSE "calc")
          /\ UNCHANGED <<bld, tl, sq, mg, pw, sin, pres, args, deg, res, iter, acc, tol>>

\* str.parse::<Quad>()
CallFromStr ==
    /\ pc = "idle"
    /\ \E str \in ParseInputs, build \in {"debug", "release"} :
          /\ pc' = "done"
          /\ fn' = "from_str"
          /\ sin' = str
          /\ bld' = build
          /\ pres' = from_str(str, build)
          /\ path' = (IF from_str_early(str) THEN "fast" ELSE "calc")
          /\ UNCHANGED <<tl, sq, mg, pw, args, deg, res, qargs, qres, iter, acc, tol>>

\* the operands of sqr: every normalised Quad of limbs of MantissaBits bits
\* whose high limb has one of two binary orders: a limb under the limb x is a
\* representable value of at most half the spacing at x, and zero under a zero
SqrOperands ==
    LET HighLimbs == {s * m * 2 ^ e : s \in {1, -1}, m \in 4 .. 7, e \in {6, 9}}
        LimbsBelow(x) ==
            IF x = 0 THEN {0}
            ELSE {y \in -(Ulp(x) \div 2) .. (Ulp(x) \div 2) : fl(y) = y}
    IN  UNION {UNION {UNION {{<<c0, c1, c2, c3>> : c3 \in LimbsBelow(c2)} :
                             c2 \in LimbsBelow(c1)} :
                      c1 \in LimbsBelow(c0)} :
               c0 \in HighLimbs}

CallSqr ==
    /\ pc = "idle"
    /\ \E self \in SqrOperands :
          /\ pc' = "done"
          /\ fn' = "quad_sqr"
          /\ sq' = sqr_limbs(self)
          /\ path' = "calc"
          /\ UNCHANGED <<bld, tl, mg, pw, sin, pres, args, deg, res, qargs, qres, iter, acc, tol>>

\* the reduced arguments: |x| <= ln(2) / 1024 < 2^-10
MaxXExp == 30
TaylorArgs == {XPow2(e) : e \in 10 .. MaxXExp} \cup {XZero, XNaN}

CallExpTaylor ==
    /\ pc = "idle"
    /\ \E x \in TaylorArgs :
          /\ pc' = "done"
          /\ fn' = "exp_taylor"
          /\ deg' = x.e
          /\ tl' = exp_taylor(x)
          /\ path' = x.k
          /\ UNCHANGED <<bld, sq, mg, pw, sin, pres, args, res, qargs, qres, iter, acc, tol>>

\* self.powi(n), built with or without overflow checks
CallPowi ==
    /\ pc = "idle"
    /\ \E n \in PowiExponents, build \in {"debug", "release"} :
          /\ pc' = "done"
          /\ fn' = "powi"
          /\ deg' = n
          /\ pw' = powi_exact(n, build)
          /\ path' = (IF i32_abs(n, build).panic THEN "panic"
                      ELSE IF n = 0 \/ i32_abs(n, build).val <= 1 THEN "fast" ELSE "calc")
          /\ UNCHANGED <<bld, tl, sq, mg, sin, pres, args, res, qargs, qres, iter, acc, tol>>

Next ==
    \/ CallMul
    \/ CallQuadAdd
    \/ CallExp
    \/ CallLn
    \/ CallLog10
    \/ CallLog2
    \/ CallLog
    \/ LnIterate
    \/ CallSqrt
    \/ CallAlgebraicSqrt
    \/ CallNRoot
    \/ CallPowf
    \/ CallAtan2
    \/ CallFromStr
    \/ CallPowi
    \/ CallSqr
    \/ CallExpTaylor

Spec == Init /\ [][Next]_vars

\* ------------------------------------------------------------------------
\* C1: Double multiplication follows the special-value table: NaN when either
\* operand is NaN or when one operand is zero and the other infinite; otherwise
\* an infinity when either operand is infinite and a zero when self is zero,
\* positive exactly when the operands have the same sign.
\* ------------------------------------------------------------------------
IsNaNArg(a) == a.hi.c = "nan" \/ a.lo.c = "nan"
IsInfArg(a) == a.hi.c = "inf"
IsZeroArg(a) == a.hi.c = "zero"
NegArg(a) == FSign(a.hi) = -1

MulTable(a, b, r) ==
    IF IsNaNArg(a) \/ IsNaNArg(b) THEN IsNaNArg(r)
    ELSE IF (IsZeroArg(a) /\ IsInfArg(b)) \/ (IsInfArg(a) /\ IsZeroArg(b)) THEN IsNaNArg(r)
    ELSE IF IsInfArg(a) \/ IsInfArg(b) THEN
        r = (IF NegArg(a) = NegArg(b) THEN INFINITY ELSE NEG_INFINITY)
    ELSE IF IsZeroArg(a) THEN
        r = (IF NegArg(a) = NegArg(b) THEN ZERO ELSE NEG_ZERO)
    ELSE TRUE

C1_MulSpecialValues ==
    (pc = "done" /\ fn = "mul") => MulTable(args[1], args[2], res)

C1_Witness ==
    /\ pc = "done" /\ fn = "mul"
    /\ args[1] = NEG_ZERO /\ args[2] = D(I(4), Eps(1))
    /\ res = NEG_ZERO


\* ------------------------------------------------------------------------
\* C2: Quad addition returns NaN whenever either operand is NaN, NaN for
\* (+Infinity) + (-Infinity) in either order, the infinity of the infinite
\* operand's sign in every other case with an infinite operand, and takes the
\* ordinary merge path only when both operands are neither NaN nor infinite.
\* An operand is NaN (infinite) when any of its four limbs is.
\* ------------------------------------------------------------------------
QuadIsNaNArg(q) == \E n \in 1..4 : q[n].c = "nan"
QuadIsInfArg(q) == \E n \in 1..4 : q[n].c = "inf"
QuadNegArg(q) == FSign(q[1]) = -1
QuadInfOf(q) == IF QuadNegArg(q) THEN Quad_NEG_INFINITY ELSE Quad_INFINITY

AddTable(a, b, r, p) ==
    IF QuadIsNaNArg(a) \/ QuadIsNaNArg(b) THEN QuadIsNaNArg(r) /\ p = "fast"
    ELSE IF QuadIsInfArg(a) /\ QuadIsInfArg(b) THEN
        /\ p = "fast"
        /\ IF QuadNegArg(a) = QuadNegArg(b) THEN r = QuadInfOf(a) ELSE QuadIsNaNArg(r)
    ELSE IF QuadIsInfArg(a) THEN r = QuadInfOf(a) /\ p = "fast"
    ELSE IF QuadIsInfArg(b) THEN r = QuadInfOf(b) /\ p = "fast"
    ELSE p = "calc"

C2_QuadAddSpecialValues ==
    (pc = "done" /\ fn = "quad_add") => AddTable(qargs[1], qargs[2], qres, path)


\* ------------------------------------------------------------------------
\* C3: Double::exp returns its fast-path constants exactly: ZERO for a high
\* limb below -600 (including -Infinity), INFINITY for a high limb above 708
\* (including +Infinity), NaN for a NaN argument, ONE for +0 and -0, E for an
\* argument exactly equal to 1; every other argument is computed.
\* ------------------------------------------------------------------------
HiBelow(a, n) == (a.hi.c = "inf" /\ a.hi.v = -1) \/ (a.hi.c = "int" /\ a.hi.v < n)
HiAbove(a, n) == (a.hi.c = "inf" /\ a.hi.v = 1) \/ (a.hi.c = "int" /\ a.hi.v > n)
IsExactlyOne(a) == a.hi = I(1) /\ a.lo.c = "zero"

ExpTable(a, r, p) ==
    IF HiBelow(a, -600) THEN r = ZERO /\ p = "fast"
    ELSE IF HiAbove(a, 708) THEN r = INFINITY /\ p = "fast"
    ELSE IF IsNaNArg(a) THEN IsNaNArg(r) /\ p = "fast"
    ELSE IF IsZeroArg(a) THEN r = ONE /\ p = "fast"
    ELSE IF IsExactlyOne(a) THEN r = E /\ p = "fast"
    ELSE p = "calc"

C3_ExpFastPaths ==
    (pc = "done" /\ fn = "exp") => ExpTable(args[1], res, path)

C3_Witness ==
    /\ pc = "done" /\ fn = "exp"
    /\ args[1] = ONE
    /\ res = E /\ path = "fast"

\* ------------------------------------------------------------------------
\* C4 (as claimed): exp applied to exactly -600 returns exactly zero.
\* ------------------------------------------------------------------------
C4_ExpAtMinus600IsZero ==
    (pc = "done" /\ fn = "exp" /\ args[1] = D(I(-600), PZero)) => res = ZERO

\* C4 (amended): the underflow fast path covers only high limbs strictly below
\* -600: exp applied to exactly -600 is computed and is not zero, and every
\* finite argument with a high limb below -600 gives exactly ZERO.
C4_ExpZeroOnlyBelowMinus600 ==
    (pc = "done" /\ fn = "exp") =>
        /\ (args[1].hi = I(-600) /\ ~IsNaNArg(args[1])) =>
              (path = "calc" /\ res # ZERO /\ FSign(res.hi) = 1)
        /\ (args[1].hi.c = "int" /\ args[1].hi.v < -600) => res = ZERO

C4_Witness ==
    /\ pc = "done" /\ fn = "exp"
    /\ args[1] = D(I(-600), PZero)
    /\ path = "calc"

\* ------------------------------------------------------------------------
\* C5: Double::ln resolves its fast paths in the order NaN, negative, zero,
\* Infinity, one: NaN for NaN and for every sign-negative argument, NEG_INFINITY
\* for +0, INFINITY for +Infinity, ZERO for exactly 1; only positive finite
\* arguments other than 1 reach the Newton iteration.
\* ------------------------------------------------------------------------
LnTable(a, r, p) ==
    IF IsNaNArg(a) THEN IsNaNArg(r) /\ p = "fast"
    ELSE IF NegArg(a) THEN IsNaNArg(r) /\ p = "fast"
    ELSE IF IsZeroArg(a) THEN r = NEG_INFINITY /\ p = "fast"
    ELSE IF IsInfArg(a) THEN r = INFINITY /\ p = "fast"
    ELSE IF IsExactlyOne(a) THEN r = ZERO /\ p = "fast"
    ELSE p = "calc"

PositiveFiniteNotOne(a) ==
    /\ ~IsNaNArg(a)
    /\ a.hi.c = "int" /\ a.hi.v > 0
    /\ ~IsExactlyOne(a)

C5_LnFastPaths ==
    /\ (pc = "done" /\ fn = "ln") => LnTable(args[1], res, path)
    /\ (pc = "ln_loop" /\ fn = "ln") => PositiveFiniteNotOne(args[1])

C5_Witness ==
    /\ pc = "done" /\ fn = "ln"
    /\ args[1] = NEG_ZERO
    /\ IsNaNArg(res)

\* ------------------------------------------------------------------------
\* C6: the Newton loop of Double::ln cannot spin indefinitely: for every
\* argument that reaches it, the loop has returned, or has been stopped by an
\* iteration cap, by the time a generous bound of 20 passes is reached.
\* ------------------------------------------------------------------------
C6_LnLoopBounded ==
    (pc = "ln_loop") => iter < 20

\* ------------------------------------------------------------------------
\* C7: log10, log2 and log(b) of a zero argument (+0 and -0 alike) return NaN.
\* ------------------------------------------------------------------------
C7_LogOfZeroIsNaN ==
    (pc = "done" /\ fn \in {"log10", "log2", "log"} /\ IsZeroArg(args[1]) /\ ~IsNaNArg(args[1]))
        => IsNaNArg(res)

\* ------------------------------------------------------------------------
\* C8: Double::sqrt returns exactly ZERO for +0 and for -0, and NaN for every
\* negative nonzero argument, -Infinity included: the zero test is made before
\* the sign test.
\* ------------------------------------------------------------------------
IsSqrt == pc = "done" /\ fn \in {"sqrt", "algebraic_sqrt"}

C8_SqrtZeroAndNegative ==
    IsSqrt =>
        /\ IsZeroArg(args[1]) => (res = ZERO /\ path = "fast")
        /\ (NegArg(args[1]) /\ ~IsZeroArg(args[1])) => (IsNaNArg(res) /\ path = "fast")

C8_Witness ==
    /\ pc = "done" /\ fn = "sqrt"
    /\ args[1] = NEG_ZERO
    /\ res = ZERO

\* ------------------------------------------------------------------------
\* C9: sqrt(+Infinity) is +Infinity, and sqrt returns NaN only for a NaN or a
\* negative argument.
\* ------------------------------------------------------------------------
C9_SqrtIeeeOnInfinity ==
    IsSqrt =>
        /\ args[1] = INFINITY => res = INFINITY
        /\ IsNaNArg(res) => (IsNaNArg(args[1]) \/ NegArg(args[1]))

\* ------------------------------------------------------------------------
\* C10: Double::nroot(n) applies its guards in order: NaN for n <= 0; NaN for an
\* even n and a sign-negative operand; the operand itself for n = 1; sqrt for
\* n = 2; ZERO for a zero operand and n >= 3; and for an odd n >= 3 a result of
\* the same sign as the operand.
\* ------------------------------------------------------------------------
NRootTable(a, n, r) ==
    IF n <= 0 THEN IsNaNArg(r)
    ELSE IF n % 2 = 0 /\ NegArg(a) THEN IsNaNArg(r)
    ELSE IF n = 1 THEN r = a
    ELSE IF n = 2 THEN r = algebraic_sqrt(a)
    ELSE IF IsZeroArg(a) THEN r = ZERO
    ELSE IF n % 2 = 1 /\ ~IsNaNArg(a) THEN ~IsNaNArg(r) /\ FSign(r.hi) = FSign(a.hi)
    ELSE TRUE

C10_NRootGuardsAndSign ==
    (pc = "done" /\ fn = "nroot") => NRootTable(args[1], deg, res)

\* ------------------------------------------------------------------------
\* the value abstraction stays decisive where a result is read: products,
\* exponentials, logarithms and every shortcut of sqrt and nroot are
\* determined; only the Newton step of a root leaves its result open
\* ------------------------------------------------------------------------
NoTop ==
    (pc = "done"
        /\ (fn \in {"mul", "exp", "ln", "log10", "log2", "log"}
            \/ (fn \in {"sqrt", "algebraic_sqrt"} /\ path = "fast")
            \/ (fn = "nroot" /\ path = "fast" /\ deg # 2)))
        => (res.hi.c # "top" /\ res.lo.c # "top")

\* sums of Quads are determined, and so is every shortcut of powf and of
\* atan2; the general path of powf leaves the size of its result open, and that
\* of atan2 its result on operands whose squares can leave the f64 range
QuadNoTop ==
    (pc = "done" /\ (fn = "quad_add" \/ (fn \in {"powf", "atan2"} /\ path = "fast")))
        => \A i \in 1 .. 4 : qres[i].c # "top"

\* nroot on finite operands: the guards hold and an odd root keeps the sign
NRootFinite ==
    (pc = "done" /\ fn = "nroot" /\ ~IsInfArg(args[1])) => NRootTable(args[1], deg, res)

\* ------------------------------------------------------------------------
\* C11: for every Double operand a, zeros of either sign included, a.nroot(2)
\* returns the same result as a.sqrt(): the same value, or NaN in both.
\* ------------------------------------------------------------------------
SameResult(r1, r2) == (IsNaNArg(r1) /\ IsNaNArg(r2)) \/ r1 = r2

C11_NRoot2IsSqrt ==
    (pc = "done" /\ fn = "nroot" /\ deg = 2) => SameResult(res, algebraic_sqrt(args[1]))

\* ------------------------------------------------------------------------
\* Quad::powf
\* ------------------------------------------------------------------------
IsPowf == pc = "done" /\ fn = "powf"
QuadZeroArg(q) == q[1].c = "zero"
QuadPositiveArg(q) == ~QuadIsNaNArg(q) /\ ~QuadZeroArg(q) /\ FSign(q[1]) = 1
QuadNegativeArg(q) == ~QuadIsNaNArg(q) /\ ~QuadZeroArg(q) /\ FSign(q[1]) = -1

\* C12: powf with a zero base of either sign returns NaN for a zero exponent
\* of either sign, ZERO for a positive exponent (finite or +Infinity) and
\* INFINITY for a negative exponent (finite or -Infinity).
C12_PowfZeroBase ==
    (IsPowf /\ QuadZeroArg(qargs[1]) /\ ~QuadIsNaNArg(qargs[2])) =>
        /\ QuadZeroArg(qargs[2]) => QuadIsNaNArg(qres)
        /\ QuadPositiveArg(qargs[2]) => qres = Quad_ZERO
        /\ QuadNegativeArg(qargs[2]) => qres = Quad_INFINITY

\* C12 witness: a negative zero raised to -Infinity has returned INFINITY
C12_Witness ==
    /\ IsPowf
    /\ qargs = <<Quad_from(NZero), Quad_NEG_INFINITY>>
    /\ qres = Quad_INFINITY

QuadFiniteArg(q) == \A i \in 1..4 : q[i].c \notin {"nan", "inf"}
QuadAboveOne(q) ==
    QuadFiniteArg(q) /\ ((q[1].c = "int" /\ q[1].v > 1) \/ (q[1] = I(1) /\ q[2] = Eps(1)))
QuadBetweenZeroAndOne(q) == QuadFiniteArg(q) /\ q[1] = Frac(1)

\* C13: powf with an infinite exponent and a positive finite base follows
\* the IEEE limits: a base above 1 gives INFINITY for +Infinity and ZERO for
\* -Infinity, a base strictly between 0 and 1 gives ZERO for +Infinity and
\* INFINITY for -Infinity, and a base of exactly 1 gives NaN for both.
C13_PowfInfiniteExponent ==
    (IsPowf /\ qargs[2] \in {Quad_INFINITY, Quad_NEG_INFINITY}) =>
        /\ QuadAboveOne(qargs[1]) =>
              qres = (IF qargs[2] = Quad_INFINITY THEN Quad_INFINITY ELSE Quad_ZERO)
        /\ QuadBetweenZeroAndOne(qargs[1]) =>
              qres = (IF qargs[2] = Quad_INFINITY THEN Quad_ZERO ELSE Quad_INFINITY)
        /\ qargs[1] = Quad_ONE => QuadIsNaNArg(qres)

\* the part of C13 that the code meets: bases of 1 and above
PowfInfiniteExponentFromOne ==
    (IsPowf /\ qargs[2] \in {Quad_INFINITY, Quad_NEG_INFINITY}) =>
        /\ QuadAboveOne(qargs[1]) =>
              qres = (IF qargs[2] = Quad_INFINITY THEN Quad_INFINITY ELSE Quad_ZERO)
        /\ qargs[1] = Quad_ONE => QuadIsNaNArg(qres)

\* C14: powf returns NaN whenever the base or the exponent is NaN, whatever
\* the other argument is, a zero base and an infinite exponent included.
C14_PowfNaN ==
    (IsPowf /\ (QuadIsNaNArg(qargs[1]) \/ QuadIsNaNArg(qargs[2]))) => QuadIsNaNArg(qres)

\* the part of C14 that the code meets: the general path, which is taken
\* when the base is not zero and the exponent is not infinite, with a NaN
\* that is_nan sees
PowfNaNOnGeneralPath ==
    (IsPowf /\ path = "calc" /\ (Quad_is_nan(qargs[1]) = Yes \/ Quad_is_nan(qargs[2]) = Yes)) =>
        QuadIsNaNArg(qres)

\* ------------------------------------------------------------------------
\* Quad::atan2
\* ------------------------------------------------------------------------
IsAtan2 == pc = "done" /\ fn = "atan2"
QuadSignPositive(q) == FSign(q[1]) # -1
QuadRegularArg(q) == ~QuadZeroArg(q) /\ ~QuadIsInfArg(q)

\* the rows of the special-case table of atan2(y, x), in the table's order
Atan2Table(y, x, r) ==
    /\ (QuadZeroArg(y) /\ QuadZeroArg(x)) => QuadIsNaNArg(r)
    /\ (~QuadZeroArg(y) /\ QuadZeroArg(x)) =>
          r = (IF QuadSignPositive(y) THEN Quad_FRAC_PI_2 ELSE Quad_neg(Quad_FRAC_PI_2))
    /\ (QuadZeroArg(y) /\ ~QuadZeroArg(x)) =>
          r = (IF QuadSignPositive(x) THEN Quad_ZERO ELSE Quad_PI)
    /\ (QuadIsInfArg(y) /\ QuadIsInfArg(x)) => QuadIsNaNArg(r)
    /\ (QuadIsInfArg(y) /\ ~QuadIsInfArg(x)) =>
          r = (IF QuadSignPositive(y) THEN Quad_FRAC_PI_2 ELSE Quad_neg(Quad_FRAC_PI_2))
    /\ (QuadRegularArg(y) /\ QuadRegularArg(x) /\ y = x) =>
          r = (IF QuadSignPositive(y) THEN Quad_FRAC_PI_4 ELSE Quad_neg(Quad_FRAC_3_PI_4))
    /\ (QuadRegularArg(y) /\ QuadRegularArg(x) /\ y = Quad_neg(x)) =>
          r = (IF QuadSignPositive(y) THEN Quad_FRAC_3_PI_4 ELSE Quad_neg(Quad_FRAC_PI_4))

\* C15: atan2(y, x) with operands that are not NaN follows the special-case
\* table: both zero gives NaN; x zero gives pi/2 for a sign-positive y and
\* -pi/2 otherwise; y zero gives ZERO for a sign-positive x and pi otherwise;
\* both infinite gives NaN; y infinite with x finite gives pi/2 signed like y;
\* y == x gives pi/4 or -3pi/4 and y == -x gives 3pi/4 or -pi/4 by the sign of y.
C15_Atan2Table ==
    (IsAtan2 /\ ~QuadIsNaNArg(qargs[1]) /\ ~QuadIsNaNArg(qargs[2])) =>
        Atan2Table(qargs[1], qargs[2], qres)

\* C15 witness: a negative y on the diagonal y == -x has returned -pi/4
C15_Witness ==
    /\ IsAtan2
    /\ qargs = <<Q(I(-5), I(-3), I(-2), I(-1)), Q(I(5), I(3), I(2), I(1))>>
    /\ qres = Quad_neg(Quad_FRAC_PI_4)

\* C16: atan2 returns NaN whenever either operand is NaN, whatever the other
\* operand is, zero and infinite operands included.
C16_Atan2NaN ==
    (IsAtan2 /\ (QuadIsNaNArg(qargs[1]) \/ QuadIsNaNArg(qargs[2]))) => QuadIsNaNArg(qres)

\* the part of C16 that the code meets: the other operand finite and nonzero
Atan2NaNWithRegularOperand ==
    (IsAtan2 /\ (QuadIsNaNArg(qargs[1]) \/ QuadIsNaNArg(qargs[2]))
        /\ (QuadIsNaNArg(qargs[1]) \/ QuadRegularArg(qargs[1]))
        /\ (QuadIsNaNArg(qargs[2]) \/ QuadRegularArg(qargs[2]))) => QuadIsNaNArg(qres)

\* C17: atan2(y, x) with x infinite and y finite and nonzero returns ZERO for
\* x = +Infinity and pi signed like y for x = -Infinity.
C17_Atan2InfiniteX ==
    (IsAtan2 /\ ~QuadIsNaNArg(qargs[1]) /\ QuadRegularArg(qargs[1])) =>
        /\ qargs[2] = Quad_INFINITY => qres = Quad_ZERO
        /\ qargs[2] = Quad_NEG_INFINITY =>
              qres = (IF QuadSignPositive(qargs[1]) THEN Quad_PI ELSE Quad_neg(Quad_PI))

\* ------------------------------------------------------------------------
\* FromStr for Quad
\* ------------------------------------------------------------------------
IsFromStr == pc = "done" /\ fn = "from_str"
IsBlank(ch) ==
    ch \in {" ", "\t", "\n", "\f", "\r", "U+000B", "U+0085", "U+00A0", "U+1680",
            "U+2000", "U+2001", "U+2002", "U+2003", "U+2004", "U+2005", "U+2006",
            "U+2007", "U+2008", "U+2009", "U+200A", "U+2028", "U+2029", "U+202F",
            "U+205F", "U+3000"}
Blank(s) == \A i \in 1 .. Len(s) : IsBlank(s[i])
FirstInk(s) ==
    CHOOSE i \in 1 .. Len(s) : ~IsBlank(s[i]) /\ \A k \in 1 .. (i - 1) : IsBlank(s[k])
LastInk(s) ==
    CHOOSE j \in 1 .. Len(s) : ~IsBlank(s[j]) /\ \A k \in (j + 1) .. Len(s) : IsBlank(s[k])
\* the input without its leading and trailing whitespace
Core(s) == IF Blank(s) THEN <<>> ELSE SubSeq(s, FirstInk(s), LastInk(s))
LetterCases(ch) ==
    CASE ch = "n" -> {"n", "N"} [] ch = "a" -> {"a", "A"} [] ch = "i" -> {"i", "I"}
      [] ch = "f" -> {"f", "F"} [] OTHER -> {ch}
Spells(s, lit) == Len(s) = Len(lit) /\ \A i \in 1 .. Len(s) : s[i] \in LetterCases(lit[i])
IsLiteral(s) ==
    Spells(s, <<"n", "a", "n">>) \/ Spells(s, <<"i", "n", "f">>) \/ Spells(s, <<"-", "i", "n", "f">>)
IsDigit(ch) == ch \in {"0", "1", "2", "3", "4", "5", "6", "7", "8", "9"}
IsMarker(ch) == ch \in {"e", "E"}
IsSign(ch) == ch \in {"+", "-"}
\* the position of the first exponent marker, Len(s) + 1 when there is none
FirstMarker(s) ==
    IF \E i \in 1 .. Len(s) : IsMarker(s[i])
    THEN CHOOSE i \in 1 .. Len(s) : IsMarker(s[i]) /\ \A k \in 1 .. (i - 1) : ~IsMarker(s[k])
    ELSE Len(s) + 1
Mantissa(s) == SubSeq(s, 1, FirstMarker(s) - 1)
ExponentPart(s) == SubSeq(s, FirstMarker(s) + 1, Len(s))
\* an optional sign and then one or more digits (every such string of the
\* input lengths is within the i32 range)
SignedInteger(t) ==
    /\ t # <<>>
    /\ IF IsSign(t[1]) THEN Len(t) > 1 /\ \A i \in 2 .. Len(t) : IsDigit(t[i])
       ELSE \A i \in 1 .. Len(t) : IsDigit(t[i])
Points(s) == Cardinality({i \in 1 .. Len(s) : s[i] = "."})
Legal(ch) == IsDigit(ch) \/ IsSign(ch) \/ IsMarker(ch) \/ ch \in {".", "_"}
\* an input that is neither blank nor one of the literals
NumericInput == IsFromStr /\ ~Blank(sin) /\ ~IsLiteral(Core(sin))

\* C18: from_str fails with kind Empty exactly when the input is empty after
\* trimming, and with kind Invalid for every other rejected input: a second
\* decimal point, an exponent marker not followed by a signed integer, or a
\* character that is no digit, '.', '+', '-', 'e', 'E' or '_'; the literals
\* nan, inf and -inf in any letter case yield NAN, INFINITY and NEG_INFINITY.
C18_FromStrErrorKinds ==
    IsFromStr =>
        /\ (pres = Err("Empty")) <=> Blank(sin)
        /\ (pres.tag = "Err" /\ ~Blank(sin)) => pres.kind = "Invalid"
        /\ Spells(Core(sin), <<"n", "a", "n">>) => pres = Ok(Quad_NAN)
        /\ Spells(Core(sin), <<"i", "n", "f">>) => pres = Ok(Quad_INFINITY)
        /\ Spells(Core(sin), <<"-", "i", "n", "f">>) => pres = Ok(Quad_NEG_INFINITY)
        /\ (NumericInput /\ Points(Mantissa(Core(sin))) >= 2) => pres = Err("Invalid")
        /\ (NumericInput /\ FirstMarker(Core(sin)) <= Len(Core(sin))
              /\ ~SignedInteger(ExponentPart(Core(sin)))) => pres = Err("Invalid")
        /\ (NumericInput /\ \E i \in 1 .. Len(Core(sin)) : ~Legal(Core(sin)[i])) =>
              pres = Err("Invalid")

\* C18 witness: a padded input whose exponent marker is followed by a lone
\* sign has been rejected with kind Invalid
C18_Witness ==
    /\ IsFromStr
    /\ sin = <<" ", "5", "e", "+">>
    /\ pres = Err("Invalid")

\* C19: from_str accepts a sign only as the leading character of the trimmed
\* mantissa; a sign at any later position before the exponent marker is
\* rejected with kind Invalid.
C19_SignOnlyLeading ==
    (NumericInput /\ \E i \in 2 .. Len(Mantissa(Core(sin))) : IsSign(Core(sin)[i])) =>
        pres = Err("Invalid")

\* the part of C19 that the code meets: a sign that follows a digit or
\* another sign is rejected
SignAfterDigitOrSignRejected ==
    (NumericInput /\ \E i \in 2 .. Len(Mantissa(Core(sin))) :
        IsSign(Core(sin)[i]) /\ \E k \in 1 .. (i - 1) : IsDigit(Core(sin)[k]) \/ IsSign(Core(sin)[k]))
    => pres = Err("Invalid")

\* C20: from_str accepts a numeric input only when its mantissa holds at
\* least one decimal digit; inputs made only of signs, a decimal point,
\* underscores and an exponent part are rejected with kind Invalid.
C20_MantissaNeedsDigit ==
    (NumericInput /\ ~\E i \in 1 .. Len(Mantissa(Core(sin))) : IsDigit(Core(sin)[i])) =>
        pres = Err("Invalid")

NotUnderscore(ch) == ch # "_"
\* s without the underscores of its mantissa
StripMantissa(s) ==
    SelectSeq(Mantissa(s), NotUnderscore) \o SubSeq(s, FirstMarker(s), Len(s))
\* a trimmed input written with the characters of numbers only
NumericChars(s) == \A i \in 1 .. Len(s) : Legal(s[i])

\* C21: in a numeric input, underscores before the exponent marker are a
\* no-op: the input and the input without them have the same outcome and
\* the same parsed value, provided a character other than '_' remains.
C21_UnderscoreNoOp ==
    (IsFromStr /\ NumericChars(Core(sin)) /\ StripMantissa(Core(sin)) # <<>>) =>
        pres = from_str(StripMantissa(Core(sin)), bld)

\* C21 witness: digits separated and led by underscores have parsed to the
\* value of the digits alone
C21_Witness ==
    /\ IsFromStr
    /\ sin = <<"_", "5", "_", "0">>
    /\ pres = Ok(Quad_from(I(50)))

\* ------------------------------------------------------------------------
\* Quad::is_nan and Quad::is_infinite, as called by pre_add on both operands
\* ------------------------------------------------------------------------
\* C22: is_nan returns true whenever any of the four limbs is NaN, in the
\* way is_infinite returns true whenever any of the four limbs is infinite.
C22_IsNanAllLimbs ==
    (pc = "done" /\ fn = "quad_add") =>
        \A k \in 1 .. 2 : QuadIsNaNArg(qargs[k]) => Quad_is_nan(qargs[k]) = Yes

\* the half of C22 that the code meets: is_infinite sees every limb
IsInfiniteAllLimbs ==
    (pc = "done" /\ fn = "quad_add") =>
        \A k \in 1 .. 2 : QuadIsInfArg(qargs[k]) <=> Quad_is_infinite(qargs[k]) = Yes

\* ------------------------------------------------------------------------
\* powi
\* ------------------------------------------------------------------------
IsPowi == pc = "done" /\ fn = "powi"
\* floor(log2 n) for n >= 1
Log2Floor(n) == CHOOSE e \in 0 .. 30 : n \div (2 ^ e) = 1

\* what C23 says of one call powi(n) with outcome o; for a negative n the
\* power |n| is told by o.pow + n = 0
PowiBinary(n, o) ==
    /\ n >= 1 => o = PowiOutcome("power", n, Log2Floor(n), o.muls, FALSE)
    /\ n = 0 => o = PowiOutcome("one", 0, 0, 0, FALSE)
    /\ n = 1 => o = PowiOutcome("power", 1, 0, 0, FALSE)
    /\ n < 0 => (o.kind = "power" /\ o.recip /\ o.pow + n = 0)
    /\ (n < 0 /\ n # I32_MIN) => o.sqrs = Log2Floor(-n)

\* C23: powi is binary exponentiation on exact products: for n >= 1 the
\* result is self to the power n, reached with floor(log2 n) squarings;
\* powi(0) is ONE; powi(1) is self unchanged; for n < 0 the result is the
\* reciprocal of the result for |n|.
C23_PowiBinaryExponentiation ==
    IsPowi => PowiBinary(deg, pw)

\* the part of C23 that the code meets: every n above i32::MIN
PowiBinaryAboveMin ==
    (IsPowi /\ deg # I32_MIN) => PowiBinary(deg, pw)

\* C30: for every negative n of the i32 range, i32::MIN included, powi
\* computes |n| without overflow and returns the reciprocal of self to the
\* power |n|, never the reciprocal of another power.
C30_PowiNegativeExponent ==
    (IsPowi /\ deg < 0) => (pw.kind = "power" /\ pw.recip /\ pw.pow + deg = 0)

\* the part of C30 that the code meets: negative n above i32::MIN
PowiNegativeAboveMin ==
    (IsPowi /\ deg < 0 /\ deg # I32_MIN) =>
        (pw.kind = "power" /\ pw.recip /\ pw.pow + deg = 0)

\* ------------------------------------------------------------------------
\* Add for Quad: the merge of the eight limbs
\* ------------------------------------------------------------------------

IsMerge == pc = "done" /\ fn = "quad_add" /\ path = "calc"

\* the limbs of an operand not yet taken before the event e
Exhausted(e, op) == IF op = "self" THEN e.i >= 4 ELSE e.j >= 4

Opposite(op) == IF op = "self" THEN "other" ELSE "self"

\* C24: once all four limbs of one operand are consumed, every limb of the
\* other operand taken afterwards bypasses the accumulator and is added
\* directly into x[3]
C24_ExhaustedBypassesAccumulator ==
    IsMerge =>
        \A n \in 1 .. Len(mg.log) :
            Exhausted(mg.log[n], Opposite(mg.log[n].op)) => mg.log[n].via = "fold"

\* C24, amended: a limb is added directly into x[3] exactly when it is still
\* unconsumed once four output limbs are written (k = 4); while k < 4 the
\* limbs of the operand that is left keep passing through the accumulator
TailFoldOnlyAfterFourOutputs ==
    IsMerge =>
        \A n \in 1 .. Len(mg.log) :
            /\ mg.log[n].via = "fold" <=> (n > 2 /\ mg.log[n].k = 4)
            /\ (n > 2 /\ mg.log[n].k < 4) => mg.log[n].via = "acc"

\* C24 witness: a merge that folded a limb into x[3] and another that fed the
\* accumulator from the operand left after the other was exhausted
C24_Witness ==
    /\ IsMerge
    /\ \E n \in 1 .. Len(mg.log) : mg.log[n].via = "fold"
    /\ \E n \in 1 .. Len(mg.log) :
          mg.log[n].via = "acc" /\ Exhausted(mg.log[n], Opposite(mg.log[n].op))

\* the limb an event took, and the limb the other operand offered then
TakenIdx(e) == IF e.op = "self" THEN e.i ELSE e.j
TakenLimb(e) == IF e.op = "self" THEN qargs[1][e.i + 1] ELSE qargs[2][e.j + 1]
OfferedLimb(e) == IF e.op = "self" THEN qargs[2][e.j + 1] ELSE qargs[1][e.i + 1]

\* the magnitude of a limb that is a zero, an integer or an infinity
ExactMag(a) == IF a.c = "zero" THEN 0 ELSE IF a.c = "inf" THEN I32_MAX ELSE AbsInt(a.v)

\* |a| > |b| and |a| < |b| as f64 comparisons: false when either is NaN
MagnitudeAbove(a, b) == a.c # "nan" /\ b.c # "nan" /\ ExactMag(a) > ExactMag(b)
MagnitudeBelow(a, b) == MagnitudeAbove(b, a)

\* C25: at the two initial picks and at every pass of the loop the limb taken
\* comes from self exactly when self's next limb is strictly larger in
\* magnitude (ties go to other), so it is never smaller than the limb the
\* other operand offers; once an operand is exhausted the other one is taken
C25_MergeOrder ==
    IsMerge =>
        \A n \in 1 .. Len(mg.log) :
            mg.log[n].via \in {"pick", "acc"} =>
                IF mg.log[n].i < 4 /\ mg.log[n].j < 4
                THEN /\ mg.log[n].op = "self" <=>
                            MagnitudeAbove(qargs[1][mg.log[n].i + 1], qargs[2][mg.log[n].j + 1])
                     /\ ~MagnitudeBelow(TakenLimb(mg.log[n]), OfferedLimb(mg.log[n]))
                ELSE ~Exhausted(mg.log[n], mg.log[n].op)

\* C25 witness: a merge that took a limb of other on a tie of nonzero
\* magnitudes, a limb of self on a strict comparison, and a limb of the
\* operand left after the other was exhausted
C25_Witness ==
    /\ IsMerge
    /\ \E n \in 1 .. Len(mg.log) :
          /\ mg.log[n].via = "acc" /\ mg.log[n].op = "other"
          /\ mg.log[n].i < 4 /\ mg.log[n].j < 4
          /\ TakenLimb(mg.log[n]).c = "int" /\ OfferedLimb(mg.log[n]).c = "int"
          /\ ExactMag(TakenLimb(mg.log[n])) = ExactMag(OfferedLimb(mg.log[n]))
    /\ \E n \in 1 .. Len(mg.log) :
          /\ mg.log[n].op = "self" /\ mg.log[n].j < 4
          /\ MagnitudeAbove(TakenLimb(mg.log[n]), OfferedLimb(mg.log[n]))
    /\ \E n \in 1 .. Len(mg.log) :
          mg.log[n].via = "acc" /\ Exhausted(mg.log[n], Opposite(mg.log[n].op))

\* the indices, in the order taken, of the limbs of one operand
TakenFrom(op) ==
    SelectSeq([n \in 1 .. Len(mg.log) |->
                  IF mg.log[n].op = op THEN TakenIdx(mg.log[n]) ELSE -1],
              LAMBDA idx : idx >= 0)

\* C29: on the ordinary path each of the eight limbs is consumed exactly
\* once, each operand's limbs in the order 0, 1, 2, 3; every index used to
\* read a limb or to write x is in 0..3; the loop makes at most 7 passes
C29_MergeConsumesEachLimbOnce ==
    IsMerge =>
        /\ Len(mg.log) = 8
        /\ TakenFrom("self") = <<0, 1, 2, 3>>
        /\ TakenFrom("other") = <<0, 1, 2, 3>>
        /\ mg.rd \subseteq 0 .. 3
        /\ mg.wr \subseteq 0 .. 3
        /\ mg.steps <= 7

\* C29 witness: a merge of the full 7 passes (six limbs through the
\* accumulator, then the pass that stores u and v)
C29_Witness == IsMerge /\ mg.steps = 7 /\ mg.brk

\* a merge that leaves limbs to the tail loops
MergeWithTailFold ==
    IsMerge /\ ~mg.brk /\ \E n \in 1 .. Len(mg.log) : mg.log[n].via = "fold"

\* ------------------------------------------------------------------------
\* Quad::sqr: the partial products and the five limbs handed to renorm5
\* ------------------------------------------------------------------------
IsSqr == pc = "done" /\ fn = "quad_sqr"

RECURSIVE SumSeq(_)
SumSeq(q) == IF q = <<>> THEN 0 ELSE Head(q) + SumSeq(Tail(q))

\* C26: the sum of r0..r4 equals exactly h0+l0+h1+l1+h2+l2+h3+l3+h4+h5
C26_SqrConservesPartialProducts ==
    IsSqr => SumSeq(sq.r) = SumSeq(sq.h)

\* what the code meets: the sum of r0..r4, the rounding errors of the five
\* plain additions (e1 + f1 and the four additions of r4) and what the three
\* quick_two_sum calls leave out make up the partial products
SqrTermsAccounted ==
    IsSqr => SumSeq(sq.r) + SumSeq(sq.lost) + SumSeq(sq.quick) = SumSeq(sq.h)

\* a quick_two_sum called with |a| >= |b| leaves nothing out
SqrQuickTwoSumOrdered ==
    IsSqr => \A n \in 1 .. 3 : sq.ordered[n] => sq.quick[n] = 0

\* a square in which quick_two_sum(i1, j1) is called with |i1| < |j1| and
\* leaves a part of i1 out, while none of the plain additions rounds
SqrQuickTwoSumDropsTerm ==
    /\ IsSqr
    /\ ~sq.ordered[3] /\ sq.quick[3] # 0
    /\ \A n \in 1 .. 5 : sq.lost[n] = 0

\* ------------------------------------------------------------------------
\* Double::exp: the Taylor loop
\* ------------------------------------------------------------------------
IsTaylor == pc = "done" /\ fn = "exp_taylor"

RECURSIVE Factorial(_)
Factorial(n) == IF n <= 1 THEN 1 ELSE n * Factorial(n - 1)

\* the table entry f agrees with 1/n! to four digits
IsInverseFactorial(f, n) ==
    AbsInt(f.m * Factorial(n) - 10 ^ (-f.e)) <= (10 ^ (-f.e)) \div 10000

\* C27: every term t = p * INV_FACTS[i] is formed with p = x^(i+3),
\* INV_FACTS[i] = 1/(i+3)! and 0 <= i <= 5; the loop makes between 1 and 5
\* passes for every x, NaN included; the series holds each x^n/n! for
\* n = 1..N exactly once, with N <= 8
C27_TaylorLoopInvariant ==
    IsTaylor =>
        /\ \A k \in 1 .. Len(tl.formed) :
              /\ tl.formed[k].i \in 0 .. 5
              /\ tl.formed[k].i + 1 \in DOMAIN INV_FACTS
              /\ tl.formed[k].n = tl.formed[k].i + 3
              /\ IsInverseFactorial(INV_FACTS[tl.formed[k].i + 1], tl.formed[k].i + 3)
        /\ tl.passes \in 1 .. 5
        /\ Len(tl.r) <= 8
        /\ tl.r = [n \in 1 .. Len(tl.r) |-> n]
        /\ Len(INV_FACTS) = 15

\* C27 witness: a NaN argument, which never passes the epsilon test, after
\* the full five passes and eight terms
C27_Witness ==
    IsTaylor /\ path = "nan" /\ tl.passes = 5 /\ Len(tl.r) = 8 /\ tl.t.i = 5

\* a finite argument that leaves the loop on the epsilon test
TaylorStopsEarly == IsTaylor /\ path = "pow2" /\ tl.passes = 2 /\ Len(tl.r) = 5

\* ------------------------------------------------------------------------
\* FromStr for Quad: the arithmetic on the decimal exponent
\* ------------------------------------------------------------------------
\* C28: from_str returns Ok or Err for every input and never panics: the i32
\* arithmetic on the exponent does not overflow for any accepted exponent,
\* exponents at or near i32::MIN with fractional digits included
C28_FromStrNeverPanics ==
    IsFromStr => pres.tag \in {"Ok", "Err"}

\* the number of fractional digits of a numeric input
RECURSIVE CountDigits(_)
CountDigits(s) ==
    IF s = <<>> THEN 0 ELSE (IF IsDigit(Head(s)) THEN 1 ELSE 0) + CountDigits(Tail(s))
RECURSIVE AfterPoint(_)
AfterPoint(s) ==
    IF s = <<>> THEN <<>> ELSE IF Head(s) = "." THEN Tail(s) ELSE AfterPoint(Tail(s))
FractionDigits(s) == CountDigits(AfterPoint(Mantissa(s)))

\* from_str returns Ok or Err whenever the mantissa has no fractional digit,
\* at both ends of the i32 range too
FromStrNoPanicWithoutFraction ==
    (IsFromStr /\ NumericInput /\ FractionDigits(Core(sin)) = 0) => pres.tag \in {"Ok", "Err"}

\* an exponent of i32::MIN after a mantissa without fractional digits has
\* been parsed into a result
FromStrMinExponentParsed ==
    /\ IsFromStr
    /\ sin = <<"5", "e", "-", "2", "1", "4", "7", "4", "8", "3", "6", "4", "8">>
    /\ pres.tag = "Ok"


====
